---- MODULE Spec2Model ----
(***************************************************************************)
(* A model of CAMP's entity graph (camp/entities/model.py) and of its YAML *)
(* codec (camp/codecs/yaml.py).                                            *)
(*                                                                         *)
(* Python values are tagged records, so that values of different Python    *)
(* types can sit in one collection.  Python dictionaries are sequences of  *)
(* <<key, value>> pairs with distinct keys, in iteration order.  Integer   *)
(* division is Python 2's (the code base is Python 2: `range(width /       *)
(* divisor + 1)`), that is, floor division.                                *)
(***************************************************************************)
EXTENDS Integers, Sequences, FiniteSets, TLC

VARIABLES
    cv,        \* the last call of Variable.cover: its arguments and its result
    va,        \* the last call of Variable.value_at: the variable, the index, the result
    mdl,       \* a Model
    conf,      \* a Configuration
    rs,        \* the last call of Model.resolve or Configuration.resolve
    stk,       \* an enumeration of Configuration.stacks: where it stands, what it yielded
    stream,    \* the configuration document a stream holds, as safe_load reads it
    loaded,    \* the outcome of the last load_configuration_from
    codec,     \* a YAML codec object: its _warnings
    loading,   \* the last load_model_from on the codec: the document, the outcome
    calls,     \* how many times load_model_from was called
    built      \* the last Builder.build: its outcome and the destination tree

varsVariable == <<cv, va>>
varsEntities == <<mdl, conf>>
varsResolve == <<rs>>
varsStacks == <<stk>>
varsCodec == <<stream, loaded>>
varsLoader == <<codec, loading, calls>>
varsBuilder == <<built>>

vars ==
    <<cv, va, mdl, conf, rs, stk, stream, loaded, codec, loading, calls, built>>

-----------------------------------------------------------------------------
(* Bounds of the explored inputs.                                          *)

MinBound == 2        \* cover: minimum and maximum range over -MinBound..MaxBound
MaxBound == 7
MaxCoverage == 4     \* cover: coverage ranges over -1..MaxCoverage
MaxIndex == 3        \* value_at: index ranges over -MaxIndex..MaxIndex

-----------------------------------------------------------------------------
(* Python values.  A value carries its type in `t`; the payload field is   *)
(* named after the type.                                                   *)

PyNone == [t |-> "NoneType"]
PyStr(s) == [t |-> "str", s |-> s]
PyInt(i) == [t |-> "int", i |-> i]
PyList(l) == [t |-> "list", l |-> l]
PyDict(d) == [t |-> "dict", d |-> d]

\* isinstance(value, str | int | list | dict)
isinstance(value, type) == value.t = type

-----------------------------------------------------------------------------
(* The entities of camp/entities/model.py.  An object is a record of its   *)
(* fields, `class` holding its type name.  A dictionary keyed by name is   *)
(* the sequence of its values in iteration order.                          *)

Range(seq) == {seq[i] : i \in DOMAIN seq}

\* {each.name: each for each in elements}, added to the entries `dict`: an
\* element whose name is already a key replaces that entry's value.
RECURSIVE dict_by_name(_, _)
dict_by_name(elements, dict) ==
    IF elements = <<>> THEN dict
    ELSE LET each == Head(elements)
             at == {k \in DOMAIN dict : dict[k].name = each.name}
         IN  dict_by_name(Tail(elements),
                 IF at = {} THEN Append(dict, each)
                 ELSE [k \in DOMAIN dict |->
                          IF k \in at THEN each ELSE dict[k]])

Service(name) == [class |-> "Service", name |-> name]

Feature(name) == [class |-> "Feature", name |-> name]

Goals(services, features) ==
    [class |-> "Goals", services |-> services, features |-> features]

Variable(name, value_type, values, realization) ==
    [class |-> "Variable", name |-> name, value_type |-> value_type,
     values |-> values, realization |-> realization]

Substitution(targets, pattern, replacements) ==
    [class |-> "Substitution", targets |-> targets, pattern |-> pattern,
     replacements |-> replacements]

NoImplementation == [class |-> "NoneType"]

DockerFile(file_path) == [class |-> "DockerFile", docker_file |-> file_path]

DockerImage(image) == [class |-> "DockerImage", docker_image |-> image]

Component(name, provided_features, required_features, provided_services, required_services, variables, implementation) ==
    [class |-> "Component", name |-> name,
     required_features |-> required_features,
     provided_features |-> provided_features,
     required_services |-> required_services,
     provided_services |-> provided_services,
     variables |-> dict_by_name(variables, <<>>),
     implementation |-> implementation]

Model(components, goals, constraints) ==
    [class |-> "Model", components |-> dict_by_name(components, <<>>),
     goals |-> goals, constraints |-> constraints]

\* Model.services and Model.features: list(set(...)), a collection without
\* duplicates whose order nothing relies on.
services(model) ==
    UNION {Range(c.provided_services) \cup Range(c.required_services) :
              c \in Range(model.components)}
        \cup Range(model.goals.services)

features(model) ==
    UNION {Range(c.provided_features) \cup Range(c.required_features) :
              c \in Range(model.components)}
        \cup Range(model.goals.features)

\* The outcome of a call: the value returned, or the exception raised with
\* its argument.
Returned(value) == [kind |-> "ok", value |-> value]
Raised(exception, argument) ==
    [kind |-> exception, value |-> PyStr(argument)]

WithName(objects, identifier) == {o \in objects : o.name = identifier}

\* Mutant: services are looked up before components.
resolve_services_first(model, identifier) ==
    IF WithName(services(model), identifier) # {}
    THEN Returned(CHOOSE any_service \in services(model) :
                      any_service.name = identifier)
    ELSE IF WithName(Range(model.components), identifier) # {}
    THEN Returned(CHOOSE c \in Range(model.components) : c.name = identifier)
    ELSE IF WithName(features(model), identifier) # {}
    THEN Returned(CHOOSE any_feature \in features(model) :
                      any_feature.name = identifier)
    ELSE Raised("KeyError", identifier)

\* Mutant: the loop over the features falls through without raising, and
\* the call returns None.
resolve_or_none(model, identifier) ==
    IF WithName(Range(model.components), identifier) # {}
    THEN Returned(CHOOSE c \in Range(model.components) : c.name = identifier)
    ELSE IF WithName(services(model), identifier) # {}
    THEN Returned(CHOOSE any_service \in services(model) :
                      any_service.name = identifier)
    ELSE IF WithName(features(model), identifier) # {}
    THEN Returned(CHOOSE any_feature \in features(model) :
                      any_feature.name = identifier)
    ELSE Returned(PyNone)

\* Model.resolve
resolve(model, identifier) ==
    IF WithName(Range(model.components), identifier) # {}
    THEN Returned(CHOOSE c \in Range(model.components) : c.name = identifier)
    ELSE IF WithName(services(model), identifier) # {}
    THEN Returned(CHOOSE any_service \in services(model) :
                      any_service.name = identifier)
    ELSE IF WithName(features(model), identifier) # {}
    THEN Returned(CHOOSE any_feature \in features(model) :
                      any_feature.name = identifier)
    ELSE Raised("KeyError", identifier)

\* An unset feature_provider (None) is the empty sequence, a set one the
\* one-element sequence of the provider's name: instances of one
\* configuration are told apart by their names.
Instance(name, definition, configuration) ==
    [class |-> "Instance", name |-> name, definition |-> definition,
     feature_provider |-> <<>>, service_providers |-> <<>>,
     configuration |-> configuration]

\* Configuration.__init__: the model argument is not kept.
Configuration(model, instances) ==
    [class |-> "Configuration", instances |-> dict_by_name(instances, <<>>)]

\* Configuration.resolve: self._instances[identifier]
resolve_instance(configuration, identifier) ==
    IF WithName(Range(configuration.instances), identifier) # {}
    THEN Returned(CHOOSE i \in Range(configuration.instances) :
                      i.name = identifier)
    ELSE Raised("KeyError", identifier)

-----------------------------------------------------------------------------
(* camp/codecs/yaml.py: the keys, and the dictionaries safe_load returns.  *)

\* class Keys (VARIABLES is a reserved word of TLA+, hence VARIABLES_).
Keys ==
    [COMPONENTS |-> "components", CONFIGURATION |-> "configuration",
     CONSTRAINTS |-> "constraints", COVERAGE |-> "coverage",
     DEFINITION |-> "definition", DOCKER |-> "docker",
     FEATURE_PROVIDER |-> "feature_provider", FILE |-> "file",
     GOALS |-> "goals", IMAGE |-> "image",
     IMPLEMENTATION |-> "implementation", INSTANCES |-> "instances",
     NAME |-> "name", PATTERN |-> "pattern",
     PROVIDES_FEATURES |-> "provides_features",
     PROVIDES_SERVICES |-> "provides_services", RANGE |-> "range",
     REALIZATION |-> "realization", REPLACEMENTS |-> "replacements",
     REQUIRES_FEATURES |-> "requires_features",
     REQUIRES_SERVICES |-> "requires_services", RUNNING |-> "running",
     SERVICE_PROVIDERS |-> "service_providers", TARGETS |-> "targets",
     TYPE |-> "type", VARIABLES_ |-> "variables", VALUES |-> "values"]

\* key in data, data[key], data.items(), for a dict `data`
has_key(data, key) == \E k \in DOMAIN data.d : data.d[k][1] = key
get(data, key) == data.d[CHOOSE k \in DOMAIN data.d : data.d[k][1] = key][2]
items(data) == data.d

\* The truth value of a Python value, as `if value` and `not value` take it.
truthy(value) ==
    CASE value.t = "NoneType" -> FALSE
      [] value.t = "str" -> value.s # ""
      [] value.t = "int" -> value.i # 0
      [] value.t = "list" -> value.l # <<>>
      [] value.t = "dict" -> value.d # <<>>

\* yaml.dump writes the keys of a mapping in sorted order, and safe_load
\* returns them in the order of the text.  StringOrder lists the keys that
\* configuration documents are saved with, in the order of Python's strings.
StringOrder ==
    <<"", "a", "b", "configuration", "definition", "feature_provider",
      "instances", "memory", "service_providers", "threads">>

rank(key) == CHOOSE n \in DOMAIN StringOrder : StringOrder[n] = key

RECURSIVE sorted(_)
sorted(pairs) ==
    IF pairs = <<>> THEN <<>>
    ELSE LET least == CHOOSE k \in DOMAIN pairs :
                          \A j \in DOMAIN pairs :
                              rank(pairs[k][1]) <= rank(pairs[j][1])
         IN  <<pairs[least]>>
                 \o sorted([k \in 1..Len(pairs) - 1 |->
                               IF k < least THEN pairs[k] ELSE pairs[k + 1]])

\* load_yaml(stream) of what yaml_dump(value, stream) wrote: scalars and
\* lists come back as they were, mappings with their keys sorted.
RECURSIVE yaml_dump(_)
yaml_dump(value) ==
    CASE value.t = "dict" ->
           LET pairs == sorted(value.d)
           IN  PyDict([k \in DOMAIN pairs |->
                          <<pairs[k][1], yaml_dump(pairs[k][2])>>])
      [] value.t = "list" ->
           PyList([k \in DOMAIN value.l |-> yaml_dump(value.l[k])])
      [] OTHER -> value

\* dictionary[key] = value
RECURSIVE setitem(_, _, _)
setitem(pairs, key, value) ==
    IF pairs = <<>> THEN << <<key, value>> >>
    ELSE IF Head(pairs)[1] = key THEN << <<key, value>> >> \o Tail(pairs)
    ELSE <<Head(pairs)>> \o setitem(Tail(pairs), key, value)

\* The loop `for variable, value in each_instance.configuration` of
\* _as_dictionary, from its k-th iteration on.
RECURSIVE configuration_as_dictionary(_, _, _)
configuration_as_dictionary(configuration, k, pairs) ==
    IF k > Len(configuration) THEN pairs
    ELSE configuration_as_dictionary(configuration, k + 1,
             setitem(pairs, configuration[k][1].name, configuration[k][2]))

\* Mutant: the name of the instance is saved as its definition.
instance_as_dictionary_own_name(each_instance) ==
    PyDict(
        << <<Keys.DEFINITION, PyStr(each_instance.name)>>,
           <<Keys.SERVICE_PROVIDERS,
             PyList([k \in DOMAIN each_instance.service_providers |->
                        PyStr(each_instance.service_providers[k])])>>,
           <<Keys.CONFIGURATION,
             PyDict(configuration_as_dictionary(
                        each_instance.configuration, 1, <<>>))>> >>)

\* The body of the loop of _as_dictionary: the dictionary of one instance.
instance_as_dictionary(each_instance) ==
    PyDict(
        << <<Keys.DEFINITION, PyStr(each_instance.definition.name)>> >>
        \o (IF each_instance.feature_provider # <<>>
            THEN << <<Keys.FEATURE_PROVIDER,
                      PyStr(each_instance.feature_provider[1])>> >>
            ELSE <<>>)
        \o << <<Keys.SERVICE_PROVIDERS,
                PyList([k \in DOMAIN each_instance.service_providers |->
                           PyStr(each_instance.service_providers[k])])>>,
              <<Keys.CONFIGURATION,
                PyDict(configuration_as_dictionary(
                           each_instance.configuration, 1, <<>>))>> >>)

\* YAML._as_dictionary
as_dictionary(configuration) ==
    PyDict(<< <<Keys.INSTANCES,
                PyDict([k \in DOMAIN configuration.instances |->
                           <<configuration.instances[k].name,
                             instance_as_dictionary(
                                 configuration.instances[k])>>])>> >>)

\* YAML.save_configuration: what the stream holds afterwards.
save_configuration(configuration) == yaml_dump(as_dictionary(configuration))

\* The loop over data[Keys.CONFIGURATION].items() of _create_instance, from
\* its k-th iteration on: each name is looked up among the variables of the
\* definition, which only a Component has.
RECURSIVE create_configuration(_, _, _, _)
create_configuration(definition, pairs, k, configuration) ==
    IF k > Len(pairs) THEN Returned(configuration)
    ELSE IF definition.class # "Component"
    THEN Raised("AttributeError", "variables")
    ELSE LET variable_name == pairs[k][1]
             matches == WithName(Range(definition.variables), variable_name)
         IN  IF matches = {}
             THEN Raised("RuntimeError", variable_name)
             ELSE create_configuration(definition, pairs, k + 1,
                      Append(configuration,
                             <<CHOOSE v \in matches : TRUE, pairs[k][2]>>))

\* YAML._create_instance
create_instance(model, name, data) ==
    LET definition == resolve(model, get(data, Keys.DEFINITION).s)
    IN  IF definition.kind # "ok" THEN definition
        ELSE LET configuration ==
                     IF has_key(data, Keys.CONFIGURATION)
                     THEN create_configuration(definition.value,
                              items(get(data, Keys.CONFIGURATION)), 1, <<>>)
                     ELSE Returned(<<>>)
             IN  IF configuration.kind # "ok" THEN configuration
                 ELSE Returned(Instance(name, definition.value,
                                        configuration.value))

\* The list comprehension of load_configuration_from, from its k-th
\* instance on: the first exception ends it.
RECURSIVE create_instances(_, _, _, _)
create_instances(model, pairs, k, instances) ==
    IF k > Len(pairs) THEN Returned(instances)
    ELSE LET each == create_instance(model, pairs[k][1], pairs[k][2])
         IN  IF each.kind # "ok" THEN each
             ELSE create_instances(model, pairs, k + 1,
                                   Append(instances, each.value))

\* [configuration.resolve(each_provider) for each_provider in names], from
\* the k-th name on.
RECURSIVE resolve_providers(_, _, _, _)
resolve_providers(configuration, names, k, providers) ==
    IF k > Len(names) THEN Returned(providers)
    ELSE LET provider == resolve_instance(configuration, names[k].s)
         IN  IF provider.kind # "ok" THEN provider
             ELSE resolve_providers(configuration, names, k + 1,
                                    Append(providers, provider.value.name))

\* Mutant: a provider that is not an instance of the configuration is left
\* out instead of raising.
connect_instance_lenient(configuration, instance, data) ==
    LET known(name) == WithName(Range(configuration.instances), name.s) # {}
        feature_provider ==
            IF /\ has_key(data, Keys.FEATURE_PROVIDER)
               /\ truthy(get(data, Keys.FEATURE_PROVIDER))
               /\ known(get(data, Keys.FEATURE_PROVIDER))
            THEN <<get(data, Keys.FEATURE_PROVIDER).s>>
            ELSE instance.feature_provider
        service_providers ==
            IF has_key(data, Keys.SERVICE_PROVIDERS)
            THEN LET names == get(data, Keys.SERVICE_PROVIDERS).l
                 IN  [k \in DOMAIN SelectSeq(names, known) |->
                         SelectSeq(names, known)[k].s]
            ELSE instance.service_providers
    IN  Returned([instance EXCEPT !.feature_provider = feature_provider,
                                  !.service_providers = service_providers])

\* YAML._connect_instance: the instance with its providers set, or the
\* exception of the first name that is no instance of the configuration.
connect_instance(configuration, instance, data) ==
    LET feature_provider ==
            IF /\ has_key(data, Keys.FEATURE_PROVIDER)
               /\ truthy(get(data, Keys.FEATURE_PROVIDER))
            THEN resolve_instance(configuration,
                                  get(data, Keys.FEATURE_PROVIDER).s)
            ELSE Returned(PyNone)
        service_providers ==
            IF has_key(data, Keys.SERVICE_PROVIDERS)
            THEN resolve_providers(configuration,
                     get(data, Keys.SERVICE_PROVIDERS).l, 1, <<>>)
            ELSE Returned(instance.service_providers)
    IN  IF feature_provider.kind # "ok" THEN feature_provider
        ELSE IF service_providers.kind # "ok" THEN service_providers
        ELSE Returned(
                 [instance EXCEPT
                     !.feature_provider =
                         IF feature_provider.value = PyNone
                         THEN instance.feature_provider
                         ELSE <<feature_provider.value.name>>,
                     !.service_providers = service_providers.value])

\* The loop `for each in instances` of load_configuration_from, from its
\* k-th instance on.  The providers are set on the instances the
\* configuration holds: `result` is updated in place.
RECURSIVE connect_instances(_, _, _, _)
connect_instances(result, instances, data, k) ==
    IF k > Len(instances) THEN Returned(result)
    ELSE LET name == instances[k].name
             at == CHOOSE n \in DOMAIN result.instances :
                       result.instances[n].name = name
             each == connect_instance(result, result.instances[at],
                                      get(data, name))
         IN  IF each.kind # "ok" THEN each
             ELSE connect_instances(
                      [result EXCEPT !.instances[at] = each.value],
                      instances, data, k + 1)

\* YAML.load_configuration_from
load_configuration_from(model, data) ==
    LET instances ==
            create_instances(model, items(get(data, Keys.INSTANCES)), 1, <<>>)
    IN  IF instances.kind # "ok" THEN instances
        ELSE connect_instances(Configuration(model, instances.value),
                               instances.value, get(data, Keys.INSTANCES), 1)

-----------------------------------------------------------------------------
(* Variable.cover                                                          *)

\* next(d for d in range(coverage, 0, -1) if width % d == 0), searched downward
\* from d; 0 stands for the StopIteration raised when the range is exhausted.
RECURSIVE next_divisor(_, _)
next_divisor(width, d) ==
    IF d <= 0 THEN 0
    ELSE IF width % d = 0 THEN d
    ELSE next_divisor(width, d - 1)

\* Mutant: the search keeps the smallest divisor instead of the largest.
smallest_divisor(width, coverage) == IF coverage <= 0 THEN 0 ELSE 1

largest_smaller_divisor(width, coverage) == next_divisor(width, coverage)

\* range(n), as the set of the values it yields.
range(n) == 0..(n - 1)

\* Mutant: range(width / divisor) instead of range(width / divisor + 1).
cover_without_last(minimum, maximum, coverage) ==
    LET width == maximum - minimum
        divisor == largest_smaller_divisor(width, coverage)
        n == Cardinality(range(width \div divisor))
    IN  IF divisor = 0
        THEN [kind |-> "StopIteration", value |-> <<>>]
        ELSE [kind |-> "ok",
              value |-> [k \in 1..n |-> minimum + (k - 1) * divisor]]

cover(minimum, maximum, coverage) ==
    LET width == maximum - minimum
        divisor == largest_smaller_divisor(width, coverage)
        n == Cardinality(range(width \div divisor + 1))
    IN  IF divisor = 0
        THEN [kind |-> "StopIteration", value |-> <<>>]
        ELSE [kind |-> "ok",
              value |-> [k \in 1..n |-> minimum + (k - 1) * divisor]]

NoCover ==
    [called |-> FALSE, minimum |-> 0, maximum |-> 0, coverage |-> 0,
     result |-> [kind |-> "none", value |-> <<>>]]

Cover(minimum, maximum, coverage) ==
    /\ cv' = [called |-> TRUE, minimum |-> minimum, maximum |-> maximum,
              coverage |-> coverage,
              result |-> cover(minimum, maximum, coverage)]
    /\ UNCHANGED <<va, varsEntities, varsResolve, varsStacks, varsCodec, varsLoader, varsBuilder>>

-----------------------------------------------------------------------------
(* camp/codecs/yaml.py: the model loader.  A parsing method is an operator *)
(* from the warnings recorded so far (self._warnings) to a parse state     *)
(* [w, kind, value]: the warnings afterwards, "ok" or the exception that   *)
(* left the method, and the value returned (in a loop: its local           *)
(* variables).  A loop over data.items() is a recursive operator over the  *)
(* pairs, from the k-th pair on, whose body is the operator named          *)
(* ..._item; an exception ends the loop.                                   *)

\* The one element of a singleton: the({e(x) : x \in {v}}) is e(v), with v
\* computed once.
the(singleton) == CHOOSE x \in singleton : TRUE

\* "/".join(path)
RECURSIVE join(_)
join(path) ==
    IF path = <<>> THEN ""
    ELSE IF Len(path) = 1 THEN path[1]
    ELSE path[1] \o "/" \o join(Tail(path))

IgnoredEntry(path) == [class |-> "IgnoredEntry", path |-> join(path)]

WrongType(expected, found, path) ==
    [class |-> "WrongType", path |-> join(path),
     expected |-> expected, found |-> found]

MissingEntry(candidates, path) ==
    [class |-> "MissingEntry", path |-> join(path), candidates |-> candidates]

\* YAML._ignore, YAML._wrong_type, YAML._missing: self._warnings.append(...)
ignore(w, path) == Append(w, IgnoredEntry(path))
wrong_type(w, expected, found, path) ==
    Append(w, WrongType(expected, found, path))
missing(w, candidates, path) == Append(w, MissingEntry(candidates, path))

Parsed(w, value) == [w |-> w, kind |-> "ok", value |-> value]
Failed(w, exception, argument) ==
    [w |-> w, kind |-> exception, value |-> PyStr(argument)]

\* type(item).__name__
type(item) == item.t

\* str(name), for the scalars a document holds.
str(name) ==
    CASE name.t = "str" -> name.s
      [] name.t = "int" -> ToString(name.i)
      [] name.t = "NoneType" -> "None"

\* YAML._escape
escape(name) ==
    IF ~isinstance(name, "str") THEN "_" \o str(name) ELSE name.s

\* The name _parse_goals gives a running service: str(each_name).
goal_name(each_name) == str(each_name)

\* The body of the loop of _parse_goals; the value is running_services.
parse_goals_item(key, item, st) ==
    IF key = Keys.RUNNING
    THEN IF ~isinstance(item, "list")
         THEN Parsed(wrong_type(st.w, "list", type(item), <<Keys.GOALS, key>>),
                     st.value)
         ELSE Parsed(st.w,
                     st.value \o [n \in DOMAIN item.l |->
                                     Service(goal_name(item.l[n]))])
    ELSE Parsed(ignore(st.w, <<Keys.GOALS, key>>), st.value)

RECURSIVE parse_goals_items(_, _, _)
parse_goals_items(pairs, k, st) ==
    IF k > Len(pairs) \/ st.kind # "ok" THEN st
    ELSE the({parse_goals_items(pairs, k + 1, next) :
                 next \in {parse_goals_item(pairs[k][1], pairs[k][2], st)}})

\* YAML._parse_goals
parse_goals(w, data) ==
    the({Parsed(st.w, Goals(st.value, <<>>)) :
            st \in {parse_goals_items(items(data), 1, Parsed(w, <<>>))}})

\* The body of the loop of _parse_docker; the value is docker.
parse_docker_item(name, key, item, st) ==
    IF key = Keys.FILE
    THEN Parsed(st.w, DockerFile(escape(item)))
    ELSE IF key = Keys.IMAGE
    THEN Parsed(st.w, DockerImage(escape(item)))
    ELSE Parsed(ignore(st.w, <<Keys.COMPONENTS, name, Keys.IMPLEMENTATION,
                               Keys.DOCKER, key>>),
                st.value)

RECURSIVE parse_docker_items(_, _, _, _)
parse_docker_items(name, pairs, k, st) ==
    IF k > Len(pairs) \/ st.kind # "ok" THEN st
    ELSE the({parse_docker_items(name, pairs, k + 1, next) :
                 next \in {parse_docker_item(name, pairs[k][1], pairs[k][2],
                                             st)}})

\* YAML._parse_docker
parse_docker(w, name, data) ==
    IF ~isinstance(data, "dict") THEN Failed(w, "AttributeError", "items")
    ELSE the({IF st.value = NoImplementation
              THEN Parsed(missing(st.w, <<Keys.FILE, Keys.IMAGE>>,
                                  <<Keys.COMPONENTS, name, Keys.IMPLEMENTATION,
                                    Keys.DOCKER>>),
                          st.value)
              ELSE st :
                 st \in {parse_docker_items(name, items(data), 1,
                                            Parsed(w, NoImplementation))}})

\* The body of the loop of _parse_implementation; the value is
\* implementation.
parse_implementation_item(name, key, item, st) ==
    IF key = Keys.DOCKER
    THEN parse_docker(st.w, name, item)
    ELSE Parsed(ignore(st.w, <<Keys.COMPONENTS, name, Keys.IMPLEMENTATION,
                               key>>),
                st.value)

RECURSIVE parse_implementation_items(_, _, _, _)
parse_implementation_items(name, pairs, k, st) ==
    IF k > Len(pairs) \/ st.kind # "ok" THEN st
    ELSE the({parse_implementation_items(name, pairs, k + 1, next) :
                 next \in {parse_implementation_item(name, pairs[k][1],
                                                     pairs[k][2], st)}})

\* YAML._parse_implementation
parse_implementation(w, name, data) ==
    parse_implementation_items(name, items(data), 1,
                               Parsed(w, NoImplementation))

UNDEFINED_PATTERN == PyStr("missing pattern!")

AllStr(list) == \A n \in DOMAIN list : isinstance(list[n], "str")

\* The body of the loop of _parse_substitution; the value holds targets,
\* pattern and replacements.
parse_substitution_item(path, key, item, st) ==
    IF key = Keys.TARGETS
    THEN IF ~isinstance(item, "list")
         THEN Parsed(wrong_type(st.w, "list", type(item), path \o <<key>>),
                     st.value)
         ELSE Parsed(st.w, [st.value EXCEPT !.targets = item.l])
    ELSE IF key = Keys.PATTERN
    THEN Parsed(st.w, [st.value EXCEPT !.pattern = item])
    ELSE IF key = Keys.REPLACEMENTS
    THEN IF ~isinstance(item, "list")
         THEN Parsed(wrong_type(st.w, "list", type(item), path \o <<key>>),
                     st.value)
         ELSE Parsed(st.w, [st.value EXCEPT !.replacements = item.l])
    ELSE Parsed(ignore(st.w, path \o <<key>>), st.value)

RECURSIVE parse_substitution_items(_, _, _, _)
parse_substitution_items(path, pairs, k, st) ==
    IF k > Len(pairs) \/ st.kind # "ok" THEN st
    ELSE the({parse_substitution_items(path, pairs, k + 1, next) :
                 next \in {parse_substitution_item(path, pairs[k][1],
                                                   pairs[k][2], st)}})

\* The three checks that follow the loop of _parse_substitution.
missing_in_substitution(w, path, found) ==
    (IF found.targets = <<>>
     THEN <<MissingEntry(<<Keys.TARGETS>>, path)>> ELSE <<>>)
    \o (IF found.pattern = UNDEFINED_PATTERN
        THEN <<MissingEntry(<<Keys.PATTERN>>, path)>> ELSE <<>>)
    \o (IF found.replacements = <<>>
        THEN <<MissingEntry(<<Keys.REPLACEMENTS>>, path)>> ELSE <<>>)

\* Substitution(targets, pattern, replacements) as _parse_substitution
\* calls it: the constructor asserts that all of them are strings.
new_substitution(w, found) ==
    IF ~AllStr(found.targets)
    THEN Failed(w, "AssertionError", "Targets must be string objects!")
    ELSE IF ~isinstance(found.pattern, "str")
    THEN Failed(w, "AssertionError", "Pattern must be a string object")
    ELSE IF ~AllStr(found.replacements)
    THEN Failed(w, "AssertionError", "Replacements must be string objects!")
    ELSE Parsed(w, Substitution(
                       [n \in DOMAIN found.targets |-> found.targets[n].s],
                       found.pattern.s,
                       [n \in DOMAIN found.replacements |->
                           found.replacements[n].s]))

substitution_path(component, variable, index) ==
    <<Keys.COMPONENTS, component, Keys.VARIABLES_, variable, Keys.REALIZATION,
      "#" \o ToString(index)>>

\* YAML._parse_substitution
parse_substitution(w, component, variable, index, data) ==
    IF ~isinstance(data, "dict") THEN Failed(w, "AttributeError", "items")
    ELSE the({new_substitution(
                  st.w \o missing_in_substitution(st.w,
                              substitution_path(component, variable, index),
                              st.value),
                  st.value) :
                 st \in {parse_substitution_items(
                             substitution_path(component, variable, index),
                             items(data), 1,
                             Parsed(w, [targets |-> <<>>,
                                        pattern |-> UNDEFINED_PATTERN,
                                        replacements |-> <<>>]))}})

\* min(item) and max(item) of a list of None and integers: Python 2 orders
\* None before every integer.
min(list) ==
    IF \E n \in DOMAIN list : list[n] = PyNone THEN PyNone
    ELSE CHOOSE m \in Range(list) : \A e \in Range(list) : m.i <= e.i

max(list) ==
    IF \A n \in DOMAIN list : list[n] = PyNone THEN PyNone
    ELSE CHOOSE m \in Range(list) \ {PyNone} :
             \A e \in Range(list) \ {PyNone} : e.i <= m.i

\* The body of the loop of _parse_values over a mapping; the value holds
\* minimum, maximum and coverage.  The range is a list of None and
\* integers, or a scalar that min() cannot iterate.
parse_values_item(path, key, item, st) ==
    IF key = Keys.RANGE
    THEN IF ~isinstance(item, "list")
         THEN Failed(st.w, "TypeError", "object is not iterable")
         ELSE IF item.l = <<>>
         THEN Failed(st.w, "ValueError", "min() arg is an empty sequence")
         ELSE Parsed(st.w, [st.value EXCEPT !.minimum = min(item.l),
                                            !.maximum = max(item.l)])
    ELSE IF key = Keys.COVERAGE
    THEN IF ~isinstance(item, "int")
         THEN Parsed(wrong_type(st.w, "int", type(item), path \o <<key>>),
                     st.value)
         ELSE Parsed(st.w, [st.value EXCEPT !.coverage = item])
    ELSE Parsed(ignore(st.w, path \o <<key>>), st.value)

RECURSIVE parse_values_items(_, _, _, _)
parse_values_items(path, pairs, k, st) ==
    IF k > Len(pairs) \/ st.kind # "ok" THEN st
    ELSE the({parse_values_items(path, pairs, k + 1, next) :
                 next \in {parse_values_item(path, pairs[k][1], pairs[k][2],
                                             st)}})

\* values = Variable.cover(minimum, maximum, coverage)
covered_values(w, minimum, maximum, coverage) ==
    the({IF covered.kind # "ok" THEN Failed(w, covered.kind, "")
         ELSE Parsed(w, [n \in DOMAIN covered.value |->
                            PyInt(covered.value[n])]) :
            covered \in {cover(minimum, maximum, coverage)}})

\* What follows the loop of _parse_values; `not coverage` holds of None and
\* of 0.
values_of_range(path, st) ==
    IF st.kind # "ok" THEN st
    ELSE IF st.value.minimum = PyNone \/ st.value.maximum = PyNone
    THEN Parsed(missing(st.w, <<Keys.RANGE>>, path), <<>>)
    ELSE IF st.value.coverage = PyNone \/ st.value.coverage = PyInt(0)
    THEN Parsed(missing(st.w, <<Keys.COVERAGE>>, path), <<>>)
    ELSE covered_values(st.w, st.value.minimum.i, st.value.maximum.i,
                        st.value.coverage.i)

\* YAML._parse_values; the value is values.  The last branch reads `item`,
\* which nothing has assigned.
parse_values(w, data, path) ==
    IF isinstance(data, "list") THEN Parsed(w, data.l)
    ELSE IF isinstance(data, "dict")
    THEN the({values_of_range(path, st) :
                 st \in {parse_values_items(path, items(data), 1,
                             Parsed(w, [minimum |-> PyNone, maximum |-> PyNone,
                                        coverage |-> PyNone]))}})
    ELSE Failed(w, "UnboundLocalError", "item")

\* enumerate(item, 1) of a realization: the elements of a list, the keys of
\* a mapping.
enumerate(item) ==
    IF isinstance(item, "list") THEN item.l
    ELSE [n \in DOMAIN item.d |-> PyStr(item.d[n][1])]

\* realization.append(substitution), unless _parse_substitution raised.
append_to(st, field, parsed) ==
    IF parsed.kind # "ok" THEN parsed
    ELSE Parsed(parsed.w, [st.value EXCEPT ![field] = Append(@, parsed.value)])

\* return <local>, unless the loop raised.
returned(st, field) ==
    IF st.kind # "ok" THEN st ELSE Parsed(st.w, st.value[field])

\* <local> = self._parse_...(...), unless that raised.
assign_to(st, field, parsed) ==
    IF parsed.kind # "ok" THEN parsed
    ELSE Parsed(parsed.w, [st.value EXCEPT ![field] = parsed.value])

\* The loop over the realization in _parse_variable.
RECURSIVE parse_realization(_, _, _, _, _)
parse_realization(component, name, each, index, st) ==
    IF index > Len(each) \/ st.kind # "ok" THEN st
    ELSE the({parse_realization(component, name, each, index + 1, next) :
                 next \in {the({append_to(st, "realization", substitution) :
                                   substitution \in
                                       {parse_substitution(st.w, component,
                                            name, index, each[index])}})}})

\* self.wrong_type(...) in _parse_variable: YAML has no such attribute.
variable_wrong_type(st, expected, found, path) ==
    Failed(st.w, "AttributeError", "wrong_type")

variable_path(component, name) ==
    <<Keys.COMPONENTS, component, Keys.VARIABLES_, name>>

\* The body of the loop of _parse_variable; the value holds value_type,
\* values and realization.
parse_variable_item(component, name, key, item, st) ==
    IF key = Keys.VALUES
    THEN IF ~isinstance(item, "list") /\ ~isinstance(item, "dict")
         THEN variable_wrong_type(st, "list", type(item),
                                  variable_path(component, name) \o <<key>>)
         ELSE the({assign_to(st, "values", values) :
                      values \in {parse_values(st.w, item,
                                      variable_path(component, name)
                                          \o <<key>>)}})
    ELSE IF key = Keys.TYPE
    THEN IF ~isinstance(item, "str")
         THEN variable_wrong_type(st, "str", type(item),
                                  variable_path(component, name) \o <<key>>)
         ELSE Parsed(st.w, [st.value EXCEPT !.value_type = item])
    ELSE IF key = Keys.REALIZATION
    THEN IF isinstance(item, "int") \/ isinstance(item, "NoneType")
         THEN Failed(st.w, "TypeError", "object is not iterable")
         ELSE IF isinstance(item, "str")
         THEN IF item.s = "" THEN st
              ELSE Failed(st.w, "AttributeError", "items")
         ELSE parse_realization(component, name, enumerate(item), 1, st)
    ELSE Parsed(ignore(st.w, variable_path(component, name) \o <<key>>),
                st.value)

RECURSIVE parse_variable_items(_, _, _, _, _)
parse_variable_items(component, name, pairs, k, st) ==
    IF k > Len(pairs) \/ st.kind # "ok" THEN st
    ELSE the({parse_variable_items(component, name, pairs, k + 1, next) :
                 next \in {parse_variable_item(component, name, pairs[k][1],
                                               pairs[k][2], st)}})

\* YAML._parse_variable
parse_variable(w, component, name, data) ==
    IF ~isinstance(data, "dict") THEN Failed(w, "AttributeError", "items")
    ELSE the({IF st.kind # "ok" THEN st
              ELSE Parsed(st.w, Variable(name, st.value.value_type,
                                         st.value.values,
                                         st.value.realization)) :
                 st \in {parse_variable_items(component, name, items(data), 1,
                             Parsed(w, [value_type |-> PyNone,
                                        values |-> <<>>,
                                        realization |-> <<>>]))}})

\* The loop of _parse_variables; the value holds variables.
RECURSIVE parse_variables_items(_, _, _, _)
parse_variables_items(component, pairs, k, st) ==
    IF k > Len(pairs) \/ st.kind # "ok" THEN st
    ELSE the({parse_variables_items(component, pairs, k + 1, next) :
                 next \in {the({append_to(st, "variables", variable) :
                                   variable \in
                                       {parse_variable(st.w, component,
                                            pairs[k][1], pairs[k][2])}})}})

\* YAML._parse_variables
parse_variables(w, component, data) ==
    the({returned(st, "variables") :
            st \in {parse_variables_items(component, items(data), 1,
                        Parsed(w, [variables |-> <<>>]))}})

\* for each_name in item: ....append(Service(self._escape(each_name)))
escaped_services(item) ==
    [n \in DOMAIN item.l |-> Service(escape(item.l[n]))]

\* for each_name in item: ....append(Feature(self._escape(each_name)))
escaped_features(item) ==
    [n \in DOMAIN item.l |-> Feature(escape(item.l[n]))]

\* The body of the loop of _parse_component; the value holds the six
\* locals.
parse_component_item(name, key, item, st) ==
    IF key \notin {Keys.PROVIDES_SERVICES, Keys.REQUIRES_SERVICES,
                   Keys.PROVIDES_FEATURES, Keys.REQUIRES_FEATURES,
                   Keys.VARIABLES_, Keys.IMPLEMENTATION}
    THEN Parsed(ignore(st.w, <<Keys.COMPONENTS, name, key>>), st.value)
    ELSE IF key \in {Keys.VARIABLES_, Keys.IMPLEMENTATION}
            /\ ~isinstance(item, "dict")
    THEN Parsed(wrong_type(st.w, "dict", type(item),
                           <<Keys.COMPONENTS, name, key>>),
                st.value)
    ELSE IF key \notin {Keys.VARIABLES_, Keys.IMPLEMENTATION}
            /\ ~isinstance(item, "list")
    THEN Parsed(wrong_type(st.w, "list", type(item),
                           <<Keys.COMPONENTS, name, key>>),
                st.value)
    ELSE IF key = Keys.PROVIDES_SERVICES
    THEN Parsed(st.w, [st.value EXCEPT !.provided_services =
                          @ \o escaped_services(item)])
    ELSE IF key = Keys.REQUIRES_SERVICES
    THEN Parsed(st.w, [st.value EXCEPT !.required_services =
                          @ \o escaped_services(item)])
    ELSE IF key = Keys.PROVIDES_FEATURES
    THEN Parsed(st.w, [st.value EXCEPT !.provided_features =
                          @ \o escaped_features(item)])
    ELSE IF key = Keys.REQUIRES_FEATURES
    THEN Parsed(st.w, [st.value EXCEPT !.required_features =
                          @ \o escaped_features(item)])
    ELSE IF key = Keys.VARIABLES_
    THEN the({assign_to(st, "variables", variables) :
                 variables \in {parse_variables(st.w, name, item)}})
    ELSE the({assign_to(st, "implementation", implementation) :
                 implementation \in {parse_implementation(st.w, name, item)}})

RECURSIVE parse_component_items(_, _, _, _)
parse_component_items(name, pairs, k, st) ==
    IF k > Len(pairs) \/ st.kind # "ok" THEN st
    ELSE the({parse_component_items(name, pairs, k + 1, next) :
                 next \in {parse_component_item(name, pairs[k][1],
                                                pairs[k][2], st)}})

\* YAML._parse_component
parse_component(w, name, data) ==
    IF ~isinstance(data, "dict") THEN Failed(w, "AttributeError", "items")
    ELSE the({IF st.kind # "ok" THEN st
              ELSE Parsed(st.w,
                       Component(name, st.value.provided_features,
                                 st.value.required_features,
                                 st.value.provided_services,
                                 st.value.required_services,
                                 st.value.variables,
                                 st.value.implementation)) :
                 st \in {parse_component_items(name, items(data), 1,
                             Parsed(w, [provided_services |-> <<>>,
                                        required_services |-> <<>>,
                                        provided_features |-> <<>>,
                                        required_features |-> <<>>,
                                        variables |-> <<>>,
                                        implementation |->
                                            NoImplementation]))}})

\* The loop of _parse_components; the value holds components.
RECURSIVE parse_components_items(_, _, _)
parse_components_items(pairs, k, st) ==
    IF k > Len(pairs) \/ st.kind # "ok" THEN st
    ELSE the({parse_components_items(pairs, k + 1, next) :
                 next \in {the({append_to(st, "components", component) :
                                   component \in
                                       {parse_component(st.w, pairs[k][1],
                                                        pairs[k][2])}})}})

\* YAML._parse_components
parse_components(w, data) ==
    the({returned(st, "components") :
            st \in {parse_components_items(items(data), 1,
                        Parsed(w, [components |-> <<>>]))}})


\* The body of the loop of load_model_from; the value holds components,
\* goals and constraints.
load_model_item(key, item, st) ==
    IF key = Keys.COMPONENTS
    THEN IF ~isinstance(item, "dict")
         THEN Parsed(wrong_type(st.w, "dict", type(item), <<key>>), st.value)
         ELSE the({assign_to(st, "components", components) :
                      components \in {parse_components(st.w, item)}})
    ELSE IF key = Keys.GOALS
    THEN IF ~isinstance(item, "dict")
         THEN Parsed(wrong_type(st.w, "dict", type(item), <<key>>), st.value)
         ELSE the({assign_to(st, "goals", goals) :
                      goals \in {parse_goals(st.w, item)}})
    ELSE IF key = Keys.CONSTRAINTS
    THEN IF ~isinstance(item, "list")
         THEN Parsed(wrong_type(st.w, "list", type(item), <<key>>), st.value)
         ELSE Parsed(st.w, [st.value EXCEPT !.constraints = @ \o item.l])
    ELSE Parsed(ignore(st.w, <<key>>), st.value)

RECURSIVE load_model_items(_, _, _)
load_model_items(pairs, k, st) ==
    IF k > Len(pairs) \/ st.kind # "ok" THEN st
    ELSE the({load_model_items(pairs, k + 1, next) :
                 next \in {load_model_item(pairs[k][1], pairs[k][2], st)}})

\* What follows the loop of load_model_from: raise InvalidYAMLModel, which
\* carries self._warnings, or return the Model.
model_or_invalid(st) ==
    IF st.kind # "ok" THEN st
    ELSE IF st.w # <<>>
    THEN [w |-> st.w, kind |-> "InvalidYAMLModel", value |-> st.w]
    ELSE Parsed(st.w, Model(st.value.components, st.value.goals,
                            st.value.constraints))

\* YAML.load_model_from, called on a codec whose _warnings are w, with the
\* document load_yaml returns: w afterwards, and the model returned or the
\* exception raised.
load_model_from(w, data) ==
    IF ~isinstance(data, "dict") THEN Failed(w, "AttributeError", "items")
    ELSE the({model_or_invalid(st) :
                 st \in {load_model_items(items(data), 1,
                             Parsed(w, [components |-> <<>>,
                                        goals |-> Goals(<<>>, <<>>),
                                        constraints |-> <<>>]))}})

-----------------------------------------------------------------------------
(* Variable.value_at                                                       *)

\* The type tags and the domains a Variable is built with: the loader passes
\* the document's `type` string or None, and a list of scalars.
ValueTypes == {PyStr("Integer"), PyStr("integer"), PyStr("String"), PyNone}
Domains ==
    {<<>>, <<PyStr("1GB")>>, <<PyStr("1GB"), PyStr("2GB")>>,
     <<PyInt(0), PyInt(5), PyInt(10)>>}

\* Python's list[index]: a negative index counts from the end, an index
\* outside -len..len-1 raises IndexError.
subscript(values, index) ==
    IF 0 <= index /\ index < Len(values)
    THEN [kind |-> "ok", value |-> values[index + 1]]
    ELSE IF index < 0 /\ -index <= Len(values)
    THEN [kind |-> "ok", value |-> values[Len(values) + index + 1]]
    ELSE [kind |-> "IndexError", value |-> PyNone]

\* Mutant: `or` instead of `and` in the condition.
value_at_or(value_type, values, index) ==
    IF value_type # PyStr("Integer") \/ Len(values) > 0
    THEN subscript(values, index)
    ELSE [kind |-> "ok", value |-> PyInt(index)]

value_at(value_type, values, index) ==
    IF value_type # PyStr("Integer") /\ Len(values) > 0
    THEN subscript(values, index)
    ELSE [kind |-> "ok", value |-> PyInt(index)]

NoValueAt ==
    [called |-> FALSE, value_type |-> PyNone, values |-> <<>>, index |-> 0,
     result |-> [kind |-> "none", value |-> PyNone]]

ValueAt(value_type, values, index) ==
    /\ va' = [called |-> TRUE, value_type |-> value_type, values |-> values,
              index |-> index,
              result |-> value_at(value_type, values, index)]
    /\ UNCHANGED <<cv, varsEntities, varsResolve, varsStacks, varsCodec, varsLoader, varsBuilder>>

-----------------------------------------------------------------------------
(* Specifications of the Variable class: cover, and value_at, on bounded   *)
(* inputs.                                                                 *)

\* The model of the tests: one component with one variable.
Memory ==
    Variable("memory", PyNone, <<PyStr("1GB"), PyStr("2GB")>>,
             <<Substitution(<<"server/Dockerfile", "server/server.cfg">>,
                            "mem=XXX", <<"mem=1", "mem=2">>)>>)

Server ==
    Component("server", <<>>, <<>>, <<Service("Awesome")>>, <<>>, <<Memory>>,
              DockerFile("server/Dockerfile"))

ServerModel == Model(<<Server>>, Goals(<<Service("Awesome")>>, <<>>), <<>>)

NoResolve ==
    [called |-> FALSE, target |-> "none", identifier |-> "",
     result |-> Returned(PyNone)]

InitVariable ==
    /\ cv = NoCover
    /\ va = NoValueAt

InitEntities ==
    /\ mdl = ServerModel
    /\ conf = Configuration(mdl, <<>>)

NoStream == [written |-> FALSE, saved |-> FALSE, data |-> PyNone]

NoLoaded == [called |-> FALSE, result |-> Returned(PyNone)]

InitCodec ==
    /\ stream = NoStream
    /\ loaded = NoLoaded

NoStacks == [pc |-> "idle", i |-> 0, stack |-> <<>>, out |-> <<>>]

\* Nothing has been built: the destination directory is empty.
NotBuilt == [called |-> FALSE, kind |-> "ok", files |-> <<>>]

\* YAML.__init__: self._warnings = []
YAML == [class |-> "YAML", warnings |-> <<>>]

NoLoading ==
    [called |-> FALSE, document |-> PyNone, before |-> <<>>,
     kind |-> "ok", value |-> PyNone]

InitLoader ==
    /\ codec = YAML
    /\ loading = NoLoading
    /\ calls = 0
    /\ built = NotBuilt

Init ==
    /\ InitVariable
    /\ InitLoader
    /\ InitEntities
    /\ rs = NoResolve
    /\ stk = NoStacks
    /\ InitCodec

NextCover ==
    \E minimum \in -MinBound..MaxBound, maximum \in -MinBound..MaxBound,
       coverage \in -1..MaxCoverage :
        Cover(minimum, maximum, coverage)

SpecCover == Init /\ [][NextCover]_vars

\* The calls of cover the contract of section 4.1 is about.
CoverInContract ==
    /\ cv.called
    /\ cv.minimum <= cv.maximum
    /\ cv.coverage >= 1

StrictlyIncreasing(seq) ==
    \A i \in 1..Len(seq) - 1 : seq[i] < seq[i + 1]

\* C1: for minimum <= maximum and coverage >= 1, cover returns (raises
\* nothing) a strictly increasing sequence whose first element is minimum
\* and whose last element is maximum.
C1_CoverEndpointsIncreasing ==
    CoverInContract =>
        /\ cv.result.kind = "ok"
        /\ Len(cv.result.value) >= 1
        /\ cv.result.value[1] = cv.minimum
        /\ cv.result.value[Len(cv.result.value)] = cv.maximum
        /\ StrictlyIncreasing(cv.result.value)

\* A call with an inner sample point: cover(0, 10, 3) = [0, 2, 4, 6, 8, 10]
\* scaled to the bounds, e.g. cover(0, 6, 4) = [0, 3, 6].
C1_Witness ==
    /\ CoverInContract
    /\ cv.minimum < cv.maximum
    /\ cv.result.kind = "ok"
    /\ Len(cv.result.value) = 3

\* C2, as claimed: for minimum <= maximum and coverage >= 1 the sequence has
\* at most coverage + 1 elements.  (Violated: coverage bounds the step, not
\* the number of steps.)
C2_AtMostCoveragePlusOne ==
    CoverInContract => Len(cv.result.value) <= cv.coverage + 1

\* The largest divisor of width in 1..coverage, stated without the search.
LargestDivisorUpTo(width, coverage) ==
    CHOOSE d \in 1..coverage :
        /\ width % d = 0
        /\ \A e \in (d + 1)..coverage : width % e # 0

\* C2, amended: for minimum <= maximum and coverage >= 1 the sequence has
\* exactly (maximum - minimum) / d + 1 elements, d being the largest divisor
\* of maximum - minimum in 1..coverage; so it has at most
\* maximum - minimum + 1 elements, consecutive elements are at most coverage
\* apart, and it has at most coverage + 1 elements whenever
\* maximum - minimum <= coverage.
C2_LengthIsWidthOverDivisorPlusOne ==
    CoverInContract =>
        LET width == cv.maximum - cv.minimum
            d == LargestDivisorUpTo(width, cv.coverage)
            seq == cv.result.value
        IN  /\ cv.result.kind = "ok"
            /\ Len(seq) = width \div d + 1
            /\ Len(seq) <= width + 1
            /\ \A i \in 1..Len(seq) - 1 : seq[i + 1] - seq[i] <= cv.coverage
            /\ width <= cv.coverage => Len(seq) <= cv.coverage + 1

\* A call whose result is longer than coverage + 1: cover(0, 5, 2) has the
\* six elements 0..5.
C2_Witness ==
    /\ CoverInContract
    /\ cv.result.kind = "ok"
    /\ Len(cv.result.value) > cv.coverage + 1

NextValueAt ==
    \E value_type \in ValueTypes, values \in Domains,
       index \in -MaxIndex..MaxIndex :
        ValueAt(value_type, values, index)

SpecValueAt == Init /\ [][NextValueAt]_vars

\* The declared type denotes integers: the code knows the one tag "Integer".
DenotesIntegers(value_type) == value_type = PyStr("Integer")

\* C10: value_at(index) returns the domain element at position index (for a
\* position of the domain), unless the declared type denotes integers or the
\* domain is empty, in which case it returns index itself, whatever index is.
C10_ValueAt ==
    va.called =>
        IF DenotesIntegers(va.value_type) \/ va.values = <<>>
        THEN va.result = [kind |-> "ok", value |-> PyInt(va.index)]
        ELSE (0 <= va.index /\ va.index < Len(va.values)) =>
                va.result = [kind |-> "ok", value |-> va.values[va.index + 1]]

\* An integer-typed variable with an enumerated domain, asked for a position
\* of that domain: the index comes back, not the element.
C10_Witness ==
    /\ va.called
    /\ DenotesIntegers(va.value_type)
    /\ Len(va.values) = 2
    /\ va.index = 1
    /\ va.values[2] # PyInt(1)
    /\ va.result = [kind |-> "ok", value |-> PyInt(1)]

-----------------------------------------------------------------------------
(* Specification of Model.resolve and Configuration.resolve: a model and a *)
(* configuration are built, then identifiers are resolved in them.        *)

\* The names of the components, and of the services and features every
\* component of the model provides and requires, and of the goals.  "a" can
\* name a component, a service and a feature at once; "ab" extends "a".
ComponentNameLists == {<<>>, <<"a">>, <<"ab">>, <<"a", "ab">>}
ServiceNameLists == {<<>>, <<"a">>, <<"s">>, <<"a", "s">>}
FeatureNameLists ==
    {<<>>, <<"a">>, <<"s">>, <<"f">>, <<"a", "s">>, <<"s", "f">>}
GoalNameLists == {<<>>, <<"g">>, <<"ab">>}
InstanceNameLists == {<<>>, <<"a">>, <<"ab">>, <<"a", "ab">>}
Identifiers == {"a", "ab", "s", "f", "g", "x"}

ResolveModel(cs, ss, fs, gs) ==
    Model([k \in DOMAIN cs |->
              Component(cs[k],
                        <<>>, [j \in DOMAIN fs |-> Feature(fs[j])],
                        [j \in DOMAIN ss |-> Service(ss[j])], <<>>,
                        <<>>, NoImplementation)],
          Goals([j \in DOMAIN gs |-> Service(gs[j])], <<>>),
          <<>>)

InitResolve ==
    /\ InitVariable
    /\ InitLoader
    /\ \E cs \in ComponentNameLists, ss \in ServiceNameLists,
          fs \in FeatureNameLists, gs \in GoalNameLists :
           mdl = ResolveModel(cs, ss, fs, gs)
    /\ \E names \in InstanceNameLists :
           conf = Configuration(mdl,
                      [k \in DOMAIN names |-> Instance(names[k], Server, <<>>)])
    /\ rs = NoResolve
    /\ stk = NoStacks
    /\ InitCodec

ModelResolve(identifier) ==
    /\ rs' = [called |-> TRUE, target |-> "Model", identifier |-> identifier,
              result |-> resolve(mdl, identifier)]
    /\ UNCHANGED <<varsVariable, varsEntities, varsStacks, varsCodec, varsLoader, varsBuilder>>

ConfigurationResolve(identifier) ==
    /\ rs' = [called |-> TRUE, target |-> "Configuration",
              identifier |-> identifier,
              result |-> resolve_instance(conf, identifier)]
    /\ UNCHANGED <<varsVariable, varsEntities, varsStacks, varsCodec, varsLoader, varsBuilder>>

NextResolve ==
    \/ \E identifier \in Identifiers : ModelResolve(identifier)
    \/ \E identifier \in Identifiers : ConfigurationResolve(identifier)

SpecResolve == InitResolve /\ [][NextResolve]_vars

\* Everything a model stores: its components, and the services and features
\* its components and its goals list.
StoredIn(model) ==
    Range(model.components)
        \cup UNION {Range(c.provided_services) \cup Range(c.required_services)
                       \cup Range(c.provided_features)
                       \cup Range(c.required_features) :
                    c \in Range(model.components)}
        \cup Range(model.goals.services) \cup Range(model.goals.features)

\* C7: resolving an identifier absent from a Model or from a Configuration
\* raises a not-found error (KeyError) for that identifier; resolving one
\* that is present returns a stored object whose name is exactly the
\* identifier.
C7_ResolveExactOrNotFound ==
    rs.called =>
        LET stored == IF rs.target = "Model" THEN StoredIn(mdl)
                      ELSE Range(conf.instances)
        IN  IF \E o \in stored : o.name = rs.identifier
            THEN /\ rs.result.kind = "ok"
                 /\ rs.result.value \in stored
                 /\ rs.result.value.name = rs.identifier
            ELSE rs.result = Raised("KeyError", rs.identifier)

\* "a" is looked up where only "ab" is stored: not found.
C7_Witness ==
    /\ rs.called
    /\ rs.target = "Model"
    /\ rs.identifier = "a"
    /\ \E o \in StoredIn(mdl) : o.name = "ab"
    /\ rs.result = Raised("KeyError", "a")

\* C8: Model.resolve looks up components, then services, then features:
\* a name of a component resolves to the component whatever else it names,
\* and a name of a service and a feature (and of no component) resolves to
\* the service.
C8_ResolveOrder ==
    (rs.called /\ rs.target = "Model") =>
        LET id == rs.identifier
            is_component == \E c \in Range(mdl.components) : c.name = id
        IN  /\ is_component => rs.result.value.class = "Component"
            /\ (~is_component /\ Service(id) \in services(mdl))
                   => rs.result = Returned(Service(id))
            /\ (~is_component /\ Service(id) \notin services(mdl)
                    /\ Feature(id) \in features(mdl))
                   => rs.result = Returned(Feature(id))

\* "a" names a component, a service and a feature: the component is returned.
C8_Witness ==
    /\ rs.called
    /\ rs.target = "Model"
    /\ rs.identifier = "a"
    /\ Service("a") \in services(mdl)
    /\ Feature("a") \in features(mdl)
    /\ rs.result.kind = "ok"
    /\ rs.result.value.class = "Component"
    /\ rs.result.value.name = "a"

-----------------------------------------------------------------------------
(* Specification of Configuration.stacks.  The instances of a              *)
(* configuration are linked through the feature_provider setter, then the  *)
(* generator `stacks` is run to its end, one step per loop iteration.      *)
(* Instances of one configuration are told apart by their names, so a      *)
(* stack is the sequence of the names of its instances.                    *)

MaxStack == 5        \* stack_of stops being followed at this length

InstanceOrders ==
    {<<"A">>, <<"A", "B">>, <<"A", "B", "C">>, <<"B", "C", "A">>}

InitStacks ==
    /\ InitVariable
    /\ InitLoader
    /\ mdl = ServerModel
    /\ \E names \in InstanceOrders :
           conf = Configuration(mdl,
                      [k \in DOMAIN names |-> Instance(names[k], Server, <<>>)])
    /\ rs = NoResolve
    /\ stk = NoStacks
    /\ InitCodec

\* Instance.feature_provider (setter), with an instance of the configuration
\* or None (<<>>) as the new provider.
SetFeatureProvider(k, new_provider) ==
    /\ stk.pc = "idle"
    /\ conf' = [conf EXCEPT !.instances[k].feature_provider = new_provider]
    /\ UNCHANGED <<varsVariable, mdl, varsResolve, varsStacks, varsCodec, varsLoader, varsBuilder>>

\* Mutant: `any` instead of `all`.
top_service_any(instances, each) ==
    \E i \in Range(instances) : ~(i.feature_provider = <<each.name>>)

\* top_services: all(not i.feature_provider is each for i in self.instances)
top_service(instances, each) ==
    \A i \in Range(instances) : ~(i.feature_provider = <<each.name>>)

InstanceNamed(instances, name) ==
    CHOOSE i \in Range(instances) : i.name = name

\* The first call of next() on the generator.
StartStacks ==
    /\ stk.pc = "idle"
    /\ stk' = [pc |-> "top_services", i |-> 1, stack |-> <<>>, out |-> <<>>]
    /\ UNCHANGED <<varsVariable, varsEntities, varsResolve, varsCodec, varsLoader, varsBuilder>>

\* One iteration of the loop of top_services: the instance is skipped, or it
\* is a top and stack_of starts with stack = [service].
TopServicesStep ==
    /\ stk.pc = "top_services"
    /\ stk.i <= Len(conf.instances)
    /\ IF top_service(conf.instances, conf.instances[stk.i])
       THEN stk' = [stk EXCEPT !.pc = "stack_of",
                               !.stack = <<conf.instances[stk.i].name>>]
       ELSE stk' = [stk EXCEPT !.i = stk.i + 1]
    /\ UNCHANGED <<varsVariable, varsEntities, varsResolve, varsCodec, varsLoader, varsBuilder>>

\* The loop of top_services is exhausted: the generator ends.
StacksEnd ==
    /\ stk.pc = "top_services"
    /\ stk.i > Len(conf.instances)
    /\ stk' = [stk EXCEPT !.pc = "done"]
    /\ UNCHANGED <<varsVariable, varsEntities, varsResolve, varsCodec, varsLoader, varsBuilder>>

\* One iteration of `while stack[-1].feature_provider`: the provider is
\* appended.  (An Instance is always true: it defines neither __len__ nor a
\* truth value.)
StackOfStep ==
    /\ stk.pc = "stack_of"
    /\ Len(stk.stack) < MaxStack
    /\ LET last == InstanceNamed(conf.instances, stk.stack[Len(stk.stack)])
       IN  /\ last.feature_provider # <<>>
           /\ stk' = [stk EXCEPT
                         !.stack = Append(stk.stack, last.feature_provider[1])]
    /\ UNCHANGED <<varsVariable, varsEntities, varsResolve, varsCodec, varsLoader, varsBuilder>>

\* The loop of stack_of ends: the stack is yielded, top_services goes on.
YieldStack ==
    /\ stk.pc = "stack_of"
    /\ LET last == InstanceNamed(conf.instances, stk.stack[Len(stk.stack)])
       IN  last.feature_provider = <<>>
    /\ stk' = [stk EXCEPT !.pc = "top_services", !.i = stk.i + 1,
                          !.stack = <<>>, !.out = Append(stk.out, stk.stack)]
    /\ UNCHANGED <<varsVariable, varsEntities, varsResolve, varsCodec, varsLoader, varsBuilder>>

NextStacks ==
    \/ \E k \in DOMAIN conf.instances :
          \E new_provider \in {<<>>} \cup {<<i.name>> : i \in Range(conf.instances)} :
             SetFeatureProvider(k, new_provider)
    \/ StartStacks
    \/ TopServicesStep
    \/ StacksEnd
    \/ StackOfStep
    \/ YieldStack

SpecStacks == InitStacks /\ [][NextStacks]_vars

\* The top instances, in iteration order: those that are the
\* feature_provider of no instance.
TopNames(instances) ==
    LET tops == {k \in DOMAIN instances :
                    \A i \in Range(instances) :
                        i.feature_provider # <<instances[k].name>>}
        nth[n \in 0..Len(instances)] ==
            IF n = 0 THEN 0
            ELSE CHOOSE k \in tops :
                     k > nth[n - 1] /\ \A j \in tops : j > nth[n - 1] => k <= j
    IN  [n \in 1..Cardinality(tops) |-> instances[nth[n]].name]

\* `stack` is [top, top.feature_provider, ...] down to an instance without
\* feature_provider.
IsStackOf(instances, stack, top) ==
    /\ Len(stack) >= 1
    /\ stack[1] = top
    /\ \A j \in 1..Len(stack) - 1 :
           InstanceNamed(instances, stack[j]).feature_provider = <<stack[j + 1]>>
    /\ InstanceNamed(instances, stack[Len(stack)]).feature_provider = <<>>

\* C5: once the enumeration of Configuration.stacks has ended, it has
\* yielded exactly one stack per top instance, in iteration order, each the
\* list [top, top.feature_provider, ...] followed down to an instance with
\* no feature_provider; a provider shared by several instances is in the
\* stack of each.
C5_OneStackPerTop ==
    stk.pc = "done" =>
        LET tops == TopNames(conf.instances)
        IN  /\ Len(stk.out) = Len(tops)
            /\ \A n \in DOMAIN tops :
                   IsStackOf(conf.instances, stk.out[n], tops[n])

\* A -> B, C -> B, B -> none gives [A, B] and [C, B].
C5_Witness ==
    /\ stk.pc = "done"
    /\ [k \in DOMAIN conf.instances |-> conf.instances[k].name] = <<"A", "B", "C">>
    /\ conf.instances[1].feature_provider = <<"B">>
    /\ conf.instances[3].feature_provider = <<"B">>
    /\ conf.instances[2].feature_provider = <<>>
    /\ stk.out = << <<"A", "B">>, <<"C", "B">> >>

-----------------------------------------------------------------------------
(* Specification of the configuration codec.  A stream holds a             *)
(* configuration document, written by save_configuration from a            *)
(* configuration of the model or coming from outside, and                  *)
(* load_configuration_from reads it against the model.                     *)

Threads == Variable("threads", PyStr("Integer"), <<>>, <<>>)

Worker ==
    Component("server", <<>>, <<>>, <<Service("Awesome")>>, <<>>,
              <<Memory, Threads>>, DockerFile("server/Dockerfile"))

Db == Component("db", <<Feature("SQL")>>, <<>>, <<>>, <<>>, <<>>,
                DockerImage("postgres"))

CodecModel ==
    Model(<<Worker, Db>>, Goals(<<Service("Awesome")>>, <<>>), <<>>)

\* The configurations that are saved: one or two instances, named "a", "b"
\* or "" (any string is a name: NamedElement), each of a component of the
\* model with values for variables of that component, each variable at most
\* once, and linked to instances of the same configuration.
SavedNameLists == {<<"a">>, <<"b", "a">>, <<"", "a">>, <<"a", "">>}

InstanceKinds ==
    {<<Worker, <<>>>>,
     <<Worker, << <<Memory, PyStr("2GB")>> >> >>,
     <<Worker, << <<Threads, PyInt(4)>>, <<Memory, PyStr("1GB")>> >> >>,
     <<Db, <<>>>>}

FeatureProviderChoices(names) == {<<>>} \cup {<<names[k]>> : k \in DOMAIN names}

ServiceProviderChoices(names) ==
    {<<>>, <<names[1]>>, [k \in DOMAIN names |-> names[Len(names) + 1 - k]]}

LinkedInstance(name, kind, feature_provider, service_providers) ==
    [Instance(name, kind[1], kind[2]) EXCEPT
        !.feature_provider = feature_provider,
        !.service_providers = service_providers]

InitSaved ==
    /\ \E names \in SavedNameLists :
         \E kinds \in [DOMAIN names -> InstanceKinds],
            fps \in [DOMAIN names -> FeatureProviderChoices(names)],
            sps \in [DOMAIN names -> ServiceProviderChoices(names)] :
             conf = Configuration(mdl,
                        [k \in DOMAIN names |->
                            LinkedInstance(names[k], kinds[k], fps[k], sps[k])])
    /\ stream = NoStream

\* The documents that come from outside: one or two instances "i1", "i2",
\* each with a definition and, or not, a configuration, a feature_provider
\* and service_providers.  An absent key is the empty sequence.
DocumentNameLists == {<<"i1">>, <<"i1", "i2">>}

DocumentDefinitions == {"server", "nope", "Awesome"}

DocumentConfigurations ==
    {<<>>,
     <<PyDict(<< <<"memory", PyStr("2GB")>> >>)>>,
     <<PyDict(<< <<"bogus", PyInt(1)>> >>)>>,
     <<PyDict(<< <<"memory", PyStr("1GB")>>, <<"extra", PyInt(1)>> >>)>>}

DocumentFeatureProviders ==
    {<<>>, <<PyStr("i1")>>, <<PyStr("ghost")>>, <<PyNone>>}

DocumentServiceProviders ==
    {<<>>, <<PyList(<<PyStr("i1")>>)>>,
     <<PyList(<<PyStr("i1"), PyStr("phantom")>>)>>}

Entry(key, optional) ==
    IF optional = <<>> THEN <<>> ELSE << <<key, optional[1]>> >>

InstanceDocument(definition, configuration, feature_provider, service_providers) ==
    PyDict(<< <<Keys.DEFINITION, PyStr(definition)>> >>
           \o Entry(Keys.FEATURE_PROVIDER, feature_provider)
           \o Entry(Keys.SERVICE_PROVIDERS, service_providers)
           \o Entry(Keys.CONFIGURATION, configuration))

InstanceDocuments ==
    {InstanceDocument(d, c, f, p) :
        d \in DocumentDefinitions, c \in DocumentConfigurations,
        f \in DocumentFeatureProviders, p \in DocumentServiceProviders}

InitDocument ==
    /\ conf = Configuration(mdl, <<>>)
    /\ \E names \in DocumentNameLists :
         \E docs \in [DOMAIN names -> InstanceDocuments] :
             stream =
                 [written |-> TRUE, saved |-> FALSE,
                  data |-> PyDict(<< <<Keys.INSTANCES,
                               PyDict([k \in DOMAIN names |->
                                          <<names[k], docs[k]>>])>> >>)]

InitConfigurationCodec ==
    /\ InitVariable
    /\ InitLoader
    /\ mdl = CodecModel
    /\ rs = NoResolve
    /\ stk = NoStacks
    /\ loaded = NoLoaded
    /\ InitSaved \/ InitDocument

\* YAML.save_configuration(configuration, stream)
SaveConfiguration ==
    /\ ~stream.written
    /\ stream' = [written |-> TRUE, saved |-> TRUE,
                  data |-> save_configuration(conf)]
    /\ UNCHANGED <<varsVariable, varsEntities, varsResolve, varsStacks, loaded, varsLoader, varsBuilder>>

\* YAML.load_configuration_from(model, stream)
LoadConfiguration ==
    /\ stream.written
    /\ ~loaded.called
    /\ loaded' = [called |-> TRUE,
                  result |-> load_configuration_from(mdl, stream.data)]
    /\ UNCHANGED <<varsVariable, varsEntities, varsResolve, varsStacks, stream, varsLoader, varsBuilder>>

NextConfigurationCodec ==
    \/ SaveConfiguration
    \/ LoadConfiguration

SpecConfigurationCodec ==
    InitConfigurationCodec /\ [][NextConfigurationCodec]_vars

\* What the round trip is to keep of a configuration, per instance name: the
\* name of the definition, the names of the providers, and the
\* variable-name to value pairs.
Summary(configuration) ==
    {[name |-> i.name,
      definition |-> i.definition.name,
      feature_provider |-> i.feature_provider,
      service_providers |-> i.service_providers,
      configuration |-> {<<i.configuration[k][1].name, i.configuration[k][2]>> :
                            k \in DOMAIN i.configuration}] :
        i \in Range(configuration.instances)}

RoundTripDone ==
    /\ loaded.called
    /\ stream.saved
    /\ Len(conf.instances) >= 1

DocumentInstances == items(get(stream.data, Keys.INSTANCES))

DocumentNames == {DocumentInstances[k][1] : k \in DOMAIN DocumentInstances}

NoDefect == Returned(PyNone)

\* The definition name is not in the model; else the first configured
\* variable name the component does not declare.
CreationDefect(data) ==
    LET name == get(data, Keys.DEFINITION).s
        pairs == IF has_key(data, Keys.CONFIGURATION)
                 THEN items(get(data, Keys.CONFIGURATION)) ELSE <<>>
        declared == {v.name : v \in Range(InstanceNamed(mdl.components, name).variables)}
        undeclared == {k \in DOMAIN pairs : pairs[k][1] \notin declared}
    IN  IF \A o \in StoredIn(mdl) : o.name # name
        THEN Raised("KeyError", name)
        ELSE IF undeclared # {}
        THEN Raised("RuntimeError",
                    pairs[CHOOSE k \in undeclared : \A j \in undeclared : k <= j][1])
        ELSE NoDefect

\* The feature_provider, else the first of the service_providers, that is
\* not an instance of the configuration.
LinkDefect(data) ==
    LET fp == IF has_key(data, Keys.FEATURE_PROVIDER)
              THEN get(data, Keys.FEATURE_PROVIDER) ELSE PyNone
        sps == IF has_key(data, Keys.SERVICE_PROVIDERS)
               THEN get(data, Keys.SERVICE_PROVIDERS).l ELSE <<>>
        unknown == {k \in DOMAIN sps : sps[k].s \notin DocumentNames}
    IN  IF truthy(fp) /\ fp.s \notin DocumentNames
        THEN Raised("KeyError", fp.s)
        ELSE IF unknown # {}
        THEN Raised("KeyError",
                    sps[CHOOSE k \in unknown : \A j \in unknown : k <= j].s)
        ELSE NoDefect

First(S) == CHOOSE k \in S : \A j \in S : k <= j

\* A document read from outside whose definition names are names of
\* components or are not in the model at all (a definition naming a service
\* or a feature is another matter: it resolves).
LoadedFromOutside ==
    /\ loaded.called
    /\ ~stream.saved
    /\ \A k \in DOMAIN DocumentInstances :
           LET name == get(DocumentInstances[k][2], Keys.DEFINITION).s
           IN  \/ \E c \in Range(mdl.components) : c.name = name
               \/ \A o \in StoredIn(mdl) : o.name # name

\* C9, as claimed: the load raises at the first instance that has a defect
\* (unknown definition, undeclared variable, unknown provider), with the
\* exception of that instance's defect.
C9_RaisesAtFirstDefectiveInstance ==
    LoadedFromOutside =>
        LET defective ==
                {k \in DOMAIN DocumentInstances :
                    \/ CreationDefect(DocumentInstances[k][2]) # NoDefect
                    \/ LinkDefect(DocumentInstances[k][2]) # NoDefect}
            first == DocumentInstances[First(defective)][2]
        IN  defective # {} =>
                loaded.result =
                    IF CreationDefect(first) # NoDefect
                    THEN CreationDefect(first) ELSE LinkDefect(first)

\* C9, amended: configuration loading is fail-fast in two passes.  It
\* raises, returning no Configuration and recording no warning, at the
\* first instance, in document order, whose definition name is not in the
\* model (KeyError) or whose configured variable name is not declared by its
\* component (RuntimeError); only when every instance has been created does
\* it raise at the first instance whose feature_provider or
\* service_providers name is not an instance of the configuration
\* (KeyError).  A document without such a defect loads.
C9_FailFastInTwoPasses ==
    LoadedFromOutside =>
        LET uncreated == {k \in DOMAIN DocumentInstances :
                             CreationDefect(DocumentInstances[k][2]) # NoDefect}
            unlinked == {k \in DOMAIN DocumentInstances :
                            LinkDefect(DocumentInstances[k][2]) # NoDefect}
        IN  IF uncreated # {}
            THEN loaded.result =
                     CreationDefect(DocumentInstances[First(uncreated)][2])
            ELSE IF unlinked # {}
            THEN loaded.result =
                     LinkDefect(DocumentInstances[First(unlinked)][2])
            ELSE /\ loaded.result.kind = "ok"
                 /\ loaded.result.value.class = "Configuration"

\* The first instance names a provider that is no instance, the second a
\* definition that is not in the model: the second one's KeyError is raised.
C9_Witness ==
    /\ LoadedFromOutside
    /\ Len(DocumentInstances) = 2
    /\ CreationDefect(DocumentInstances[1][2]) = NoDefect
    /\ LinkDefect(DocumentInstances[1][2]) = Raised("KeyError", "ghost")
    /\ CreationDefect(DocumentInstances[2][2]) = Raised("KeyError", "nope")
    /\ loaded.result = Raised("KeyError", "nope")

-----------------------------------------------------------------------------
(* The model loader: load_model_from called again and again on one YAML    *)
(* codec, or on a new one, with the documents of a family that holds the   *)
(* well-formed shapes, one of each warning, and the shapes on which the    *)
(* parser raises.                                                          *)

MaxCalls == 2        \* load_model_from is called at most MaxCalls times

Mapping(key, value) == PyDict(<< <<key, value>> >>)

\* A substitution of the realization of a variable, as a document: whole,
\* without a pattern, with targets that are no list, empty, with the pattern
\* "missing pattern!", with an empty list of targets.
SubstitutionDocuments ==
    {PyDict(<< <<Keys.TARGETS, PyList(<<PyStr("conf.ini")>>)>>,
               <<Keys.PATTERN, PyStr("mem=1GB")>>,
               <<Keys.REPLACEMENTS, PyList(<<PyStr("mem=2GB")>>)>> >>),
     PyDict(<< <<Keys.TARGETS, PyList(<<PyStr("conf.ini")>>)>>,
               <<Keys.REPLACEMENTS, PyList(<<PyStr("mem=2GB")>>)>> >>),
     PyDict(<< <<Keys.TARGETS, PyStr("conf.ini")>>,
               <<Keys.PATTERN, PyStr("mem=1GB")>>,
               <<Keys.REPLACEMENTS, PyList(<<PyStr("mem=2GB")>>)>> >>),
     PyDict(<<>>),
     PyDict(<< <<Keys.TARGETS, PyList(<<PyStr("conf.ini")>>)>>,
               <<Keys.PATTERN, PyStr("missing pattern!")>>,
               <<Keys.REPLACEMENTS, PyList(<<PyStr("mem=2GB")>>)>> >>),
     PyDict(<< <<Keys.TARGETS, PyList(<<>>)>>,
               <<Keys.PATTERN, PyStr("mem=1GB")>>,
               <<Keys.REPLACEMENTS, PyList(<<PyStr("mem=2GB")>>)>> >>)}

\* A docker implementation, as a document.
DockerDocuments ==
    {Mapping(Keys.FILE, PyStr("Dockerfile")), Mapping(Keys.IMAGE, PyStr("postgres")),
     PyDict(<<>>), Mapping("dockerfile", PyStr("Dockerfile"))}

\* The `values` of a variable given as a mapping: a range and a coverage;
\* the range alone; a coverage below 1; a coverage that is no integer; the
\* coverage alone.
ValuesDocuments ==
    {PyDict(<< <<Keys.RANGE, PyList(<<PyInt(0), PyInt(10)>>)>>,
               <<Keys.COVERAGE, PyInt(3)>> >>),
     Mapping(Keys.RANGE, PyList(<<PyInt(0), PyInt(10)>>)),
     PyDict(<< <<Keys.RANGE, PyList(<<PyInt(0), PyInt(10)>>)>>,
               <<Keys.COVERAGE, PyInt(-1)>> >>),
     PyDict(<< <<Keys.RANGE, PyList(<<PyInt(0), PyInt(10)>>)>>,
               <<Keys.COVERAGE, PyInt(0)>> >>),
     PyDict(<< <<Keys.RANGE, PyList(<<PyInt(0), PyInt(10)>>)>>,
               <<Keys.COVERAGE, PyStr("3")>> >>),
     Mapping(Keys.COVERAGE, PyInt(3))}

\* The variable `memory` of a component, as a document.
VariableDocuments ==
    {Mapping(Keys.REALIZATION, PyList(<<s>>)) : s \in SubstitutionDocuments}
    \cup
    {Mapping(Keys.VALUES, v) : v \in ValuesDocuments}
    \cup
    {PyDict(<< <<Keys.TYPE, PyStr("Text")>>,
               <<Keys.VALUES, PyList(<<PyStr("1GB"), PyStr("2GB")>>)>> >>),
     Mapping(Keys.TYPE, PyInt(3)),
     Mapping(Keys.VALUES, PyInt(3))}

\* The component `server`, as a document.
ComponentDocuments ==
    {Mapping(Keys.VARIABLES_, Mapping("memory", v)) : v \in VariableDocuments}
    \cup
    {PyDict(<< <<Keys.PROVIDES_SERVICES, PyList(<<PyStr("Awesome"), PyInt(1)>>)>>,
               <<Keys.REQUIRES_FEATURES, PyList(<<PyStr("Python")>>)>> >>),
     Mapping(Keys.PROVIDES_SERVICES, PyStr("Awesome")),
     Mapping("provides_service", PyList(<<PyStr("Awesome")>>)),
     PyNone}
    \cup
    {Mapping(Keys.IMPLEMENTATION, Mapping(Keys.DOCKER, d)) :
        d \in DockerDocuments}

GoalsDocuments ==
    {<<>>,
     <<Mapping(Keys.RUNNING, PyList(<<PyStr("Awesome"), PyInt(1)>>))>>,
     <<Mapping(Keys.RUNNING, PyStr("Awesome"))>>}

\* What load_yaml returns: None for an empty stream, or a mapping with an
\* unknown key (or none), the components (or none) and the goals (or none).
ModelDocument(extra, components, goals) ==
    PyDict(Entry("extra", extra) \o Entry(Keys.COMPONENTS, components)
           \o Entry(Keys.GOALS, goals))

ModelDocuments ==
    {PyNone}
    \cup {ModelDocument(<<>>, <<Mapping("server", c)>>, <<>>) :
             c \in ComponentDocuments}
    \cup {ModelDocument(e, c, g) :
             e \in {<<>>, <<PyInt(1)>>},
             c \in {<<>>, <<PyList(<<>>)>>, <<Mapping("server", PyNone)>>,
                    <<Mapping("server",
                              Mapping(Keys.PROVIDES_SERVICES,
                                      PyList(<<PyStr("Awesome"), PyInt(1)>>)))>>},
             g \in GoalsDocuments}

\* codec = YAML()
NewYAML ==
    /\ codec.warnings # <<>>
    /\ codec' = YAML
    /\ loading' = NoLoading
    /\ UNCHANGED <<calls, varsVariable, varsEntities, varsResolve, varsStacks,
                   varsCodec, varsBuilder>>

\* codec.load_model_from(stream), the stream holding `document`.
LoadModelFrom(document) ==
    /\ calls < MaxCalls
    /\ LET outcome == load_model_from(codec.warnings, document)
       IN  /\ codec' = [codec EXCEPT !.warnings = outcome.w]
           /\ loading' = [called |-> TRUE, document |-> document,
                          before |-> codec.warnings,
                          kind |-> outcome.kind, value |-> outcome.value]
    /\ calls' = calls + 1
    /\ UNCHANGED <<varsVariable, varsEntities, varsResolve, varsStacks,
                   varsCodec, varsBuilder>>

NextModelLoader ==
    \/ NewYAML
    \/ \E document \in ModelDocuments : LoadModelFrom(document)

SpecModelLoader == Init /\ [][NextModelLoader]_vars

\* The warnings the last call recorded: what it appended to self._warnings.
Recorded ==
    SubSeq(codec.warnings, Len(loading.before) + 1, Len(codec.warnings))

OnlyUnknownKey == Mapping("extra", PyInt(1))

\* C3: load_model_from raises InvalidYAMLModel, carrying the warnings
\* recorded while parsing the document, if and only if at least one warning
\* was recorded for that document, and otherwise returns a Model; a document
\* holding only an unknown top-level key fails with exactly one IgnoredEntry,
\* and the document without that key loads.
C3_InvalidIffWarningRecorded ==
    loading.called /\ isinstance(loading.document, "dict") =>
        /\ (loading.kind = "InvalidYAMLModel") <=> (Recorded # <<>>)
        /\ loading.kind = "InvalidYAMLModel" => loading.value = Recorded
        /\ Recorded = <<>> =>
               /\ loading.kind = "ok"
               /\ loading.value.class = "Model"
        /\ loading.document = OnlyUnknownKey =>
               /\ loading.kind = "InvalidYAMLModel"
               /\ Recorded = <<IgnoredEntry(<<"extra">>)>>
        /\ loading.document = PyDict(<<>>) => loading.kind = "ok"

\* A codec that has recorded nothing is given a variable whose type is not
\* a string: no warning is recorded, and no Model is returned either.
C3_Witness ==
    /\ loading.called
    /\ loading.before = <<>>
    /\ loading.document =
           ModelDocument(<<>>,
               <<Mapping("server",
                     Mapping(Keys.VARIABLES_,
                         Mapping("memory", Mapping(Keys.TYPE, PyInt(3)))))>>,
               <<>>)
    /\ Recorded = <<>>
    /\ loading.kind = "AttributeError"

\* C4: the outcome of every load_model_from on one codec, success or failure
\* with its warning list, is the outcome the document has on a codec that
\* has recorded nothing; so a valid document loads whatever was loaded
\* before.
C4_OutcomeDependsOnDocumentOnly ==
    loading.called =>
        LET alone == load_model_from(<<>>, loading.document)
        IN  /\ loading.kind = alone.kind
            /\ loading.value = alone.value

\* The empty mapping is loaded by a codec that has ignored an entry of an
\* earlier document: InvalidYAMLModel is raised, with that warning.
C4_Witness ==
    /\ loading.called
    /\ loading.before = <<IgnoredEntry(<<"extra">>)>>
    /\ loading.document = PyDict(<<>>)
    /\ loading.kind = "InvalidYAMLModel"
    /\ loading.value = loading.before

-----------------------------------------------------------------------------
(* camp/realize: Builder.build(configuration, source, destination).  A     *)
(* path is the sequence of its segments; a file is the sequence of its     *)
(* lines, and a pattern occurs in it where a line is the pattern.  The     *)
(* destination tree is a function from paths to files.                     *)

\* The files of <source>/template.
TemplateFiles ==
    (<<"server", "Dockerfile">> :> <<"FROM debian:jessie", "mem=XXX">>)
    @@ (<<"server", "server.cfg">> :> <<"mem=XXX", "threads=YYY", "mem=XXX">>)
    @@ (<<"docker-compose.yml">> :> <<"mem=XXX", "threads=YYY">>)

TargetPaths == DOMAIN TemplateFiles \cup {<<"server", "nope.cfg">>}

\* target.split("/")
split(target) == CHOOSE path \in TargetPaths : join(path) = target

\* Mutant: only the first occurrence of the pattern is replaced.
replace_first(content, pattern, replacement) ==
    [n \in DOMAIN content |->
        IF content[n] = pattern /\ \A m \in 1..(n - 1) : content[m] # pattern
        THEN replacement ELSE content[n]]

\* content.replace(pattern, replacement)
replace(content, pattern, replacement) ==
    [n \in DOMAIN content |->
        IF content[n] = pattern THEN replacement ELSE content[n]]

\* The index of the replacement: the position of the value in the domain of
\* the variable, or the value itself when the variable has no domain.
replacement_index(variable, value) ==
    IF variable.values = <<>> THEN value.i
    ELSE (CHOOSE n \in DOMAIN variable.values : variable.values[n] = value) - 1

\* The directory of an instance in the destination.
images(instance) == <<"images", instance.name>>

\* Step 1: template/<component-name>/ is copied to images/<instance-name>/.
copy_component(files, instance) ==
    LET copied == {path \in DOMAIN TemplateFiles :
                      Len(path) > 1 /\ path[1] = instance.definition.name}
    IN  [path \in {images(instance) \o Tail(p) : p \in copied} |->
            TemplateFiles[<<instance.definition.name>>
                          \o SubSeq(path, 3, Len(path))]]
        @@ files

\* Mutant: a shared file is taken from the template at every write.
shared_content_from_template(files, path) == TemplateFiles[path]

\* What a shared file holds before a write: the template on the first
\* write, and what the destination holds afterwards.
shared_content(files, path) ==
    IF path \in DOMAIN files THEN files[path] ELSE TemplateFiles[path]

\* Step 2, for one target of a substitution.
substitute_in(st, instance, path, pattern, replacement) ==
    IF st.kind # "ok" THEN st
    ELSE IF Len(path) > 1 /\ path[1] = instance.definition.name
            /\ images(instance) \o Tail(path) \in DOMAIN st.files
    THEN [st EXCEPT !.files[images(instance) \o Tail(path)] =
                        replace(@, pattern, replacement)]
    ELSE IF Len(path) = 1 /\ path \in DOMAIN TemplateFiles
    THEN [st EXCEPT !.files =
             (path :> replace(shared_content(st.files, path), pattern,
                              replacement)) @@ st.files]
    ELSE [st EXCEPT !.kind = "RealizationFailure"]

RECURSIVE substitute_in_targets(_, _, _, _, _, _)
substitute_in_targets(st, instance, targets, k, pattern, replacement) ==
    IF k > Len(targets) THEN st
    ELSE the({substitute_in_targets(next, instance, targets, k + 1, pattern,
                                    replacement) :
                 next \in {substitute_in(st, instance, split(targets[k]),
                                         pattern, replacement)}})

\* Step 2, for the substitutions of one variable, from the k-th on.
RECURSIVE realize_variable(_, _, _, _, _)
realize_variable(st, instance, substitutions, k, index) ==
    IF k > Len(substitutions) THEN st
    ELSE the({realize_variable(next, instance, substitutions, k + 1, index) :
                 next \in {substitute_in_targets(st, instance,
                               substitutions[k].targets, 1,
                               substitutions[k].pattern,
                               substitutions[k].replacements[index + 1])}})

\* Step 2, for the (variable, value) pairs of one instance, from the k-th on.
RECURSIVE realize_instance(_, _, _)
realize_instance(st, instance, k) ==
    IF k > Len(instance.configuration) THEN st
    ELSE the({realize_instance(next, instance, k + 1) :
                 next \in {realize_variable(st, instance,
                               instance.configuration[k][1].realization, 1,
                               replacement_index(instance.configuration[k][1],
                                   instance.configuration[k][2]))}})

\* Steps 1 and 2 for the instances in iteration order, from the k-th on; the
\* first failure ends the build and leaves what was written.
RECURSIVE build_instances(_, _, _)
build_instances(st, instances, k) ==
    IF k > Len(instances) \/ st.kind # "ok" THEN st
    ELSE the({build_instances(next, instances, k + 1) :
                 next \in {realize_instance(
                               [st EXCEPT !.files =
                                   copy_component(@, instances[k])],
                               instances[k], 1)}})

\* Step 3: the shared files the destination does not hold yet are copied.
copy_shared(st) ==
    IF st.kind # "ok" THEN st
    ELSE [st EXCEPT !.files =
             [path \in {p \in DOMAIN TemplateFiles : Len(p) = 1}
                           \ DOMAIN st.files |-> TemplateFiles[path]] @@ @]

\* Builder.build
build(configuration) ==
    copy_shared(build_instances([called |-> TRUE, kind |-> "ok",
                                 files |-> <<>>],
                                configuration.instances, 1))

\* The models and configurations that are built: the component `server`
\* with a variable over a domain and one whose value is its index, their
\* substitutions targeting files of the component, the shared file, or a
\* file that does not exist; one or two instances, each with a value for
\* some of the variables.
MemoryTargets ==
    {<<"server/Dockerfile", "server/server.cfg">>, <<"docker-compose.yml">>,
     <<"server/server.cfg", "docker-compose.yml">>, <<"server/nope.cfg">>}

ThreadsTargets == {<<"server/server.cfg">>, <<"docker-compose.yml">>}

BuiltMemory(targets) ==
    Variable("memory", PyNone, <<PyStr("1GB"), PyStr("2GB")>>,
             <<Substitution(targets, "mem=XXX", <<"mem=1", "mem=2">>)>>)

BuiltThreads(targets) ==
    Variable("threads", PyStr("Integer"), <<>>,
             <<Substitution(targets, "threads=YYY",
                            <<"threads=0", "threads=1">>)>>)

BuiltServer(memory, threads) ==
    Component("server", <<>>, <<>>, <<Service("Awesome")>>, <<>>,
              <<BuiltMemory(memory), BuiltThreads(threads)>>,
              DockerFile("server/Dockerfile"))

BuiltNameLists ==
    {<<"server_0">>, <<"server_0", "server_1">>, <<"server_1", "server_0">>}

BuiltValues(memory, threads) ==
    {<<>>} \cup {<< <<BuiltMemory(memory), v>> >> :
                    v \in {PyStr("1GB"), PyStr("2GB")}}
           \cup {<< <<BuiltThreads(threads), v>> >> : v \in {PyInt(0), PyInt(1)}}
           \cup {<< <<BuiltMemory(memory), v>>, <<BuiltThreads(threads), i>> >> :
                    v \in {PyStr("1GB"), PyStr("2GB")},
                    i \in {PyInt(0), PyInt(1)}}

InitBuilder ==
    /\ InitVariable
    /\ \E memory \in MemoryTargets, threads \in ThreadsTargets :
         /\ mdl = Model(<<BuiltServer(memory, threads)>>,
                        Goals(<<Service("Awesome")>>, <<>>), <<>>)
         /\ \E names \in BuiltNameLists :
              \E values \in [DOMAIN names -> BuiltValues(memory, threads)] :
                conf = Configuration(mdl,
                           [k \in DOMAIN names |->
                               Instance(names[k], BuiltServer(memory, threads),
                                        values[k])])
    /\ rs = NoResolve
    /\ stk = NoStacks
    /\ InitCodec
    /\ InitLoader

\* builder.build(configuration, source, destination)
Build ==
    /\ ~built.called
    /\ built' = build(conf)
    /\ UNCHANGED <<varsVariable, varsEntities, varsResolve, varsStacks,
                   varsCodec, varsLoader>>

NextBuilder == Build

SpecBuilder == InitBuilder /\ [][NextBuilder]_vars

\* The (instance, pair, substitution, target) combinations of the
\* configuration that was built, as records.
Realized ==
    UNION {UNION {UNION {{[instance |-> i,
                           variable |-> i.configuration[k][1],
                           index |-> replacement_index(i.configuration[k][1],
                                                       i.configuration[k][2]),
                           substitution |-> s,
                           path |-> split(s.targets[t])] :
                             t \in DOMAIN s.targets} :
                         s \in Range(i.configuration[k][1].realization)} :
                  k \in DOMAIN i.configuration} :
           i \in Range(conf.instances)}

\* C11: after build, for every instance, every configured (variable, value)
\* and every substitution of the variable whose target is a file of the
\* template of the instance's component, the file images/<instance-name>/
\* <target without the component name> is the template file with every
\* occurrence of the pattern replaced by replacements[i], i being the
\* position of the value in the domain of the variable.
C11_ComponentFilesSubstituted ==
    built.called /\ built.kind = "ok" =>
        \A r \in Realized :
            Len(r.path) > 1 /\ r.path \in DOMAIN TemplateFiles =>
                LET file == images(r.instance) \o Tail(r.path)
                IN  /\ file \in DOMAIN built.files
                    /\ Len(built.files[file]) = Len(TemplateFiles[r.path])
                    /\ \A n \in DOMAIN TemplateFiles[r.path] :
                          IF TemplateFiles[r.path][n] = r.substitution.pattern
                          THEN built.files[file][n] =
                                   r.substitution.replacements[r.index + 1]
                          ELSE built.files[file][n] = TemplateFiles[r.path][n]
                               \/ \E o \in Realized :
                                     /\ o.instance = r.instance
                                     /\ o.path = r.path
                                     /\ o.substitution.pattern =
                                            TemplateFiles[r.path][n]

\* server_0 with "2GB" of ["1GB", "2GB"]: mem=2 in Dockerfile and in
\* server.cfg, at both occurrences.
C11_Witness ==
    /\ built.called
    /\ built.kind = "ok"
    /\ \E i \in Range(conf.instances) :
          /\ i.name = "server_0"
          /\ i.configuration =
                 << <<BuiltMemory(<<"server/Dockerfile", "server/server.cfg">>),
                      PyStr("2GB")>> >>
    /\ built.files[<<"images", "server_0", "Dockerfile">>] =
           <<"FROM debian:jessie", "mem=2">>
    /\ built.files[<<"images", "server_0", "server.cfg">>] =
           <<"mem=2", "threads=YYY", "mem=2">>

\* The position in the iteration order of the first instance that writes
\* the pattern of `r` to the shared file of `r`.
FirstWriter(r) ==
    CHOOSE k \in DOMAIN conf.instances :
        /\ \E o \in Realized :
              /\ o.instance = conf.instances[k]
              /\ o.path = r.path
              /\ o.substitution.pattern = r.substitution.pattern
        /\ \A j \in 1..(k - 1) :
              ~\E o \in Realized :
                  /\ o.instance = conf.instances[j]
                  /\ o.path = r.path
                  /\ o.substitution.pattern = r.substitution.pattern

\* C12: after build, a substitution whose target is a shared file of the
\* top of the template is applied to <destination>/<path>, and to no file
\* under images/; the file holds what the substitutions of all instances,
\* applied to the template in iteration order, leave: at an occurrence of a
\* pattern, the replacement of the first instance that substitutes it.
C12_SharedFileCumulative ==
    built.called /\ built.kind = "ok" =>
        \A r \in Realized :
            Len(r.path) = 1 /\ r.path \in DOMAIN TemplateFiles =>
                /\ r.path \in DOMAIN built.files
                /\ \A i \in Range(conf.instances) :
                       images(i) \o r.path \notin DOMAIN built.files
                /\ Len(built.files[r.path]) = Len(TemplateFiles[r.path])
                /\ \A n \in DOMAIN TemplateFiles[r.path] :
                       TemplateFiles[r.path][n] = r.substitution.pattern =>
                           \E o \in Realized :
                               /\ o.instance = conf.instances[FirstWriter(r)]
                               /\ o.path = r.path
                               /\ o.substitution.pattern = r.substitution.pattern
                               /\ built.files[r.path][n] =
                                      o.substitution.replacements[o.index + 1]

\* server_0 puts mem=2 in docker-compose.yml, then server_1 finds no mem=XXX
\* left and puts threads=1 in what server_0 wrote.
C12_Witness ==
    /\ built.called
    /\ built.kind = "ok"
    /\ Len(conf.instances) = 2
    /\ conf.instances[1].name = "server_0"
    /\ conf.instances[1].configuration =
           << <<BuiltMemory(<<"docker-compose.yml">>), PyStr("2GB")>> >>
    /\ conf.instances[2].configuration =
           << <<BuiltMemory(<<"docker-compose.yml">>), PyStr("1GB")>>,
              <<BuiltThreads(<<"docker-compose.yml">>), PyInt(1)>> >>
    /\ built.files[<<"docker-compose.yml">>] = <<"mem=2", "threads=1">>

\* The document whose component `server` has the variable `memory`.
MemoryDocument(variable) ==
    ModelDocument(<<>>,
        <<Mapping("server", Mapping(Keys.VARIABLES_, Mapping("memory", variable)))>>,
        <<>>)

\* One field of the wrong shape in each context, with the warning it asks
\* for: top level, goals, component, variable (type, values), values,
\* substitution.
WrongShaped ==
    {[document |-> ModelDocument(<<>>, <<PyList(<<>>)>>, <<>>),
      warning |-> WrongType("dict", "list", <<"components">>)],
     [document |-> ModelDocument(<<>>, <<>>,
                       <<Mapping(Keys.RUNNING, PyStr("Awesome"))>>),
      warning |-> WrongType("list", "str", <<"goals", "running">>)],
     [document |-> ModelDocument(<<>>,
                       <<Mapping("server",
                             Mapping(Keys.PROVIDES_SERVICES, PyStr("Awesome")))>>,
                       <<>>),
      warning |-> WrongType("list", "str",
                      <<"components", "server", "provides_services">>)],
     [document |-> MemoryDocument(Mapping(Keys.TYPE, PyInt(3))),
      warning |-> WrongType("str", "int",
                      <<"components", "server", "variables", "memory",
                        "type">>)],
     [document |-> MemoryDocument(Mapping(Keys.VALUES, PyInt(3))),
      warning |-> WrongType("list", "int",
                      <<"components", "server", "variables", "memory",
                        "values">>)],
     [document |-> MemoryDocument(Mapping(Keys.VALUES,
                       PyDict(<< <<Keys.RANGE, PyList(<<PyInt(0), PyInt(10)>>)>>,
                                 <<Keys.COVERAGE, PyStr("3")>> >>))),
      warning |-> WrongType("int", "str",
                      <<"components", "server", "variables", "memory",
                        "values", "coverage">>)],
     [document |-> MemoryDocument(Mapping(Keys.REALIZATION,
                       PyList(<<PyDict(<< <<Keys.TARGETS, PyStr("conf.ini")>>,
                                          <<Keys.PATTERN, PyStr("mem=1GB")>>,
                                          <<Keys.REPLACEMENTS,
                                            PyList(<<PyStr("mem=2GB")>>)>> >>)>>))),
      warning |-> WrongType("list", "str",
                      <<"components", "server", "variables", "memory",
                        "realization", "#1", "targets">>)]}

\* C13: in every context of a model document a field of the wrong shape is
\* recorded as a WrongType warning (expected, found, path), the parsing goes
\* on, and the load ends with InvalidYAMLModel and no other error; so it is
\* for a variable whose type is not a string or whose values are neither a
\* sequence nor a mapping.
C13_WrongTypeRecorded ==
    loading.called /\ loading.before = <<>> =>
        \A case \in WrongShaped :
            loading.document = case.document =>
                /\ loading.kind = "InvalidYAMLModel"
                /\ case.warning \in Range(loading.value)

\* The values of a variable are an integer: no warning, AttributeError.
C13_Witness ==
    /\ loading.called
    /\ loading.before = <<>>
    /\ loading.document = MemoryDocument(Mapping(Keys.VALUES, PyInt(3)))
    /\ loading.kind = "AttributeError"
    /\ loading.value = PyStr("wrong_type")
    /\ codec.warnings = <<>>

\* How many of the warnings the last call recorded are `warning`.
Count(warning) ==
    Cardinality({n \in DOMAIN Recorded : Recorded[n] = warning})

\* A value that is not empty: a list with an element, a string with a
\* character, a number.
NonEmpty(value) ==
    CASE isinstance(value, "list") -> value.l # <<>>
      [] isinstance(value, "str") -> value.s # ""
      [] isinstance(value, "dict") -> value.d # <<>>
      [] OTHER -> ~isinstance(value, "NoneType")

\* C14: once the keys of a substitution have been scanned, one MissingEntry
\* is recorded for each of targets, pattern and replacements that it does
\* not provide, and none for one that it provides with a non-empty value; a
\* docker implementation records a MissingEntry with the candidates file and
\* image exactly when it provides neither.
C14_MissingEntries ==
    loading.called =>
        /\ \A substitution \in SubstitutionDocuments :
               loading.document =
                   MemoryDocument(Mapping(Keys.REALIZATION,
                                          PyList(<<substitution>>))) =>
                   \A key \in {Keys.TARGETS, Keys.PATTERN, Keys.REPLACEMENTS} :
                       LET entry == MissingEntry(<<key>>,
                                        substitution_path("server", "memory", 1))
                       IN  /\ ~has_key(substitution, key) => Count(entry) = 1
                           /\ has_key(substitution, key)
                                  /\ NonEmpty(get(substitution, key)) =>
                                  Count(entry) = 0
        /\ \A docker \in DockerDocuments :
               loading.document =
                   ModelDocument(<<>>,
                       <<Mapping("server",
                             Mapping(Keys.IMPLEMENTATION,
                                     Mapping(Keys.DOCKER, docker)))>>,
                       <<>>) =>
                   (Count(MissingEntry(<<Keys.FILE, Keys.IMAGE>>,
                              <<"components", "server", "implementation",
                                "docker">>)) = 1)
                       <=> (~has_key(docker, Keys.FILE)
                               /\ ~has_key(docker, Keys.IMAGE))
                   /\ Count(MissingEntry(<<Keys.FILE, Keys.IMAGE>>,
                               <<"components", "server", "implementation",
                                 "docker">>)) <= 1

\* The substitution provides the pattern "missing pattern!": a MissingEntry
\* for the pattern is recorded and the load fails.
C14_Witness ==
    /\ loading.called
    /\ loading.before = <<>>
    /\ \E substitution \in SubstitutionDocuments :
          /\ has_key(substitution, Keys.PATTERN)
          /\ get(substitution, Keys.PATTERN) = PyStr("missing pattern!")
          /\ loading.document =
                 MemoryDocument(Mapping(Keys.REALIZATION,
                                        PyList(<<substitution>>)))
    /\ loading.kind = "InvalidYAMLModel"
    /\ loading.value =
           <<MissingEntry(<<Keys.PATTERN>>,
                          substitution_path("server", "memory", 1))>>

\* The name the specification gives a scalar: itself if it is a string,
\* else "_" and its string form.
Coerced(scalar) ==
    IF scalar.t = "str" THEN scalar.s
    ELSE IF scalar.t = "int" THEN "_" \o ToString(scalar.i)
    ELSE "_None"

\* The list under `key` in a mapping, or the empty list.
ListAt(data, key) ==
    IF isinstance(data, "dict") /\ has_key(data, key)
          /\ isinstance(get(data, key), "list")
    THEN get(data, key).l ELSE <<>>

\* The mapping under `key` in a mapping, or the empty mapping.
MappingAt(data, key) ==
    IF isinstance(data, "dict") /\ has_key(data, key)
          /\ isinstance(get(data, key), "dict")
    THEN get(data, key) ELSE PyDict(<<>>)

ServerDocument == MappingAt(MappingAt(loading.document, "components"), "server")

RunningNames == ListAt(MappingAt(loading.document, "goals"), "running")

\* C15: a scalar that is no string, used as the name of a service or of a
\* feature, becomes "_" and its string form wherever it occurs: in
\* provides_services, requires_services, provides_features,
\* requires_features and goals.running; so a scalar used in a component and
\* in the goals is the same Service.
C15_NamesCoercedEverywhere ==
    loading.called /\ loading.kind = "ok" =>
        LET server == CHOOSE c \in Range(loading.value.components) :
                          c.name = "server"
        IN  /\ ServerDocument # PyDict(<<>>) =>
                   /\ server.provided_services =
                          [n \in DOMAIN ListAt(ServerDocument, "provides_services")
                              |-> Service(Coerced(ListAt(ServerDocument,
                                              "provides_services")[n]))]
                   /\ server.required_services =
                          [n \in DOMAIN ListAt(ServerDocument, "requires_services")
                              |-> Service(Coerced(ListAt(ServerDocument,
                                              "requires_services")[n]))]
                   /\ server.provided_features =
                          [n \in DOMAIN ListAt(ServerDocument, "provides_features")
                              |-> Feature(Coerced(ListAt(ServerDocument,
                                              "provides_features")[n]))]
                   /\ server.required_features =
                          [n \in DOMAIN ListAt(ServerDocument, "requires_features")
                              |-> Feature(Coerced(ListAt(ServerDocument,
                                              "requires_features")[n]))]
            /\ loading.value.goals.services =
                   [n \in DOMAIN RunningNames |->
                       Service(Coerced(RunningNames[n]))]
            /\ ServerDocument # PyDict(<<>>) =>
                   \A n \in DOMAIN RunningNames,
                      m \in DOMAIN ListAt(ServerDocument, "provides_services") :
                       RunningNames[n] =
                           ListAt(ServerDocument, "provides_services")[m] =>
                           loading.value.goals.services[n] =
                               server.provided_services[m]

\* The component provides the service 1 and the goals run the service 1:
\* the component provides Service("_1"), the goals run Service("1").
C15_Witness ==
    /\ loading.called
    /\ loading.kind = "ok"
    /\ ListAt(ServerDocument, "provides_services") =
           <<PyStr("Awesome"), PyInt(1)>>
    /\ RunningNames = <<PyStr("Awesome"), PyInt(1)>>
    /\ \E c \in Range(loading.value.components) :
           c.provided_services = <<Service("Awesome"), Service("_1")>>
    /\ loading.value.goals.services = <<Service("Awesome"), Service("1")>>

-----------------------------------------------------------------------------
(* Termination of Configuration.stacks.  The loop of stack_of reads only   *)
(* the last instance of the stack and the links do not change while the    *)
(* generator runs: the loop ends if and only if it never appends an        *)
(* instance that the stack already holds.                                  *)

\* C16: the enumeration of Configuration.stacks ends whatever the
\* feature_provider links are, cycles included: stack_of never comes back
\* to an instance it has already put on the stack.
C16_StacksTerminates ==
    stk.pc = "stack_of" =>
        \A j, k \in DOMAIN stk.stack :
            j # k => stk.stack[j] # stk.stack[k]

\* A -> B and B -> B: A is a top, and stack_of(A) has appended B a second
\* time; it appends B for ever.
C16_Witness ==
    /\ stk.pc = "stack_of"
    /\ [k \in DOMAIN conf.instances |-> conf.instances[k].name] = <<"A", "B">>
    /\ conf.instances[1].feature_provider = <<"B">>
    /\ conf.instances[2].feature_provider = <<"B">>
    /\ stk.stack = <<"A", "B", "B">>

-----------------------------------------------------------------------------
\* C17: every Instance of a Configuration returned by
\* load_configuration_from has a Component of the model as its definition,
\* never a Service or a Feature, also when the `definition` of the document
\* names a service or a feature of the model.
C17_DefinitionIsComponent ==
    loaded.called /\ loaded.result.kind = "ok" =>
        \A instance \in Range(loaded.result.value.instances) :
            /\ instance.definition.class = "Component"
            /\ instance.definition \in Range(mdl.components)

\* The document gives i1 the definition "Awesome", which only names a
\* service of the model: the configuration is returned, and the definition
\* of i1 is that Service.
C17_Witness ==
    /\ loaded.called
    /\ ~stream.saved
    /\ loaded.result.kind = "ok"
    /\ \E instance \in Range(loaded.result.value.instances) :
           /\ instance.name = "i1"
           /\ instance.definition = Service("Awesome")
           /\ Service("Awesome") \in services(mdl)
           /\ \A c \in Range(mdl.components) : c.name # "Awesome"

-----------------------------------------------------------------------------
\* The coverage a `values` mapping gives, if it is an integer.
CoverageGiven(values) ==
    IF has_key(values, Keys.COVERAGE)
          /\ isinstance(get(values, Keys.COVERAGE), "int")
    THEN <<get(values, Keys.COVERAGE).i>> ELSE <<>>

\* min <= max and coverage >= 1: what Variable.cover asks for.
Coverable(values) ==
    /\ has_key(values, Keys.RANGE)
    /\ min(get(values, Keys.RANGE).l).i <= max(get(values, Keys.RANGE).l).i
    /\ CoverageGiven(values) # <<>>
    /\ CoverageGiven(values)[1] >= 1

\* C18: the loader calls Variable.cover only with minimum <= maximum and
\* coverage >= 1; for a `values` mapping without range, or whose coverage
\* is missing, zero or negative, a warning is recorded and the load ends
\* with InvalidYAMLModel, never with an error raised by cover.
C18_CoverOnlyWithinDomain ==
    loading.called =>
        \A values \in ValuesDocuments :
            loading.document = MemoryDocument(Mapping(Keys.VALUES, values)) =>
                /\ loading.kind # "StopIteration"
                /\ ~Coverable(values) =>
                       /\ loading.kind = "InvalidYAMLModel"
                       /\ \E warning \in Range(loading.value) :
                              /\ warning.class = "MissingEntry"
                              /\ warning.path =
                                     join(variable_path("server", "memory")
                                          \o <<Keys.VALUES>>)

\* range: [0, 10] with coverage: -1 gets past `elif not coverage`:
\* cover(0, 10, -1) finds no divisor and the load ends with StopIteration,
\* no warning recorded.
C18_Witness ==
    /\ loading.called
    /\ loading.before = <<>>
    /\ loading.document =
           MemoryDocument(Mapping(Keys.VALUES,
               PyDict(<< <<Keys.RANGE, PyList(<<PyInt(0), PyInt(10)>>)>>,
                         <<Keys.COVERAGE, PyInt(-1)>> >>)))
    /\ cover(0, 10, 0 - 1).kind = "StopIteration"
    /\ loading.kind = "StopIteration"
    /\ codec.warnings = <<>>

====
